---- MODULE Spec2Model ----
(***************************************************************************)
(* Message-segment conversion pipeline of nekro-agent:                     *)
(*   convert_chat_message                 (wire message -> segment list)   *)
(*   convert_chat_message_to_prompt_str   (segment list -> prompt string)  *)
(*   convert_raw_msg_data_json_to_msg_prompt (persisted record -> prompt)  *)
(* and the administrative command handlers of matchers/command.py          *)
(* (command_guard, reset, exec, sh, conf_set, na_on, na_off,               *)
(* docker_restart, nekro_db_reset).                                        *)
(* Python strings are sequences of one-character strings, so that          *)
(* splitting, prefix tests, lower-casing, concatenation and substring      *)
(* search are computed and not assumed.                                    *)
(***************************************************************************)
EXTENDS Integers, Sequences, FiniteSets, TLC

VARIABLES
    conv,   \* the frame of one convert_chat_message call
    enc,    \* the frame of one convert_chat_message_to_prompt_str call
    conv2,  \* the frame of a second, concurrent convert_chat_message call
    raw,    \* the frame of one convert_raw_msg_data_json_to_msg_prompt call
    cmd     \* the state the command handlers act on

vars == <<conv, enc, conv2, raw, cmd>>

\* what a step of the first convert_chat_message frame leaves alone
OtherThanConv == <<enc, conv2, raw, cmd>>

\* what a step of the prompt encoder frame leaves alone
OtherThanEnc == <<conv, conv2, raw, cmd>>

\* what a step of the second convert_chat_message frame leaves alone
OtherThanConv2 == <<conv, enc, raw, cmd>>

(***************************************************************************)
(* Bounds                                                                  *)
(***************************************************************************)
\* longest wire message (number of wire segments)
MaxSegs == 2
\* longest segment list handed to the prompt encoder
MaxEncSegs == 3

(***************************************************************************)
(* Python values and string helpers                                        *)
(***************************************************************************)
\* a Python int and a Python str, kept apart so that str() is a conversion
PyInt(n) == [int |-> n]
PyStr(s) == [str |-> s]

DigitChars == <<"0", "1", "2", "3", "4", "5", "6", "7", "8", "9">>

RECURSIVE DecStr(_)
\* decimal digits of a natural number, most significant first
DecStr(n) == IF n < 10 THEN <<DigitChars[n + 1]>>
             ELSE DecStr(n \div 10) \o <<DigitChars[(n % 10) + 1]>>

\* str(v): the decimal text of an int, a str unchanged
Str(v) == IF "int" \in DOMAIN v
          THEN (IF v.int < 0 THEN <<"-">> \o DecStr(0 - v.int) ELSE DecStr(v.int))
          ELSE v.str

UpperChars ==
    <<"A", "B", "C", "D", "E", "F", "G", "H", "I", "J", "K", "L", "M",
      "N", "O", "P", "Q", "R", "S", "T", "U", "V", "W", "X", "Y", "Z">>

LowerChars ==
    <<"a", "b", "c", "d", "e", "f", "g", "h", "i", "j", "k", "l", "m",
      "n", "o", "p", "q", "r", "s", "t", "u", "v", "w", "x", "y", "z">>

\* str.lower() on one character
LowerChar(ch) ==
    IF \E i \in 1..Len(UpperChars) : UpperChars[i] = ch
    THEN LowerChars[CHOOSE i \in 1..Len(UpperChars) : UpperChars[i] = ch]
    ELSE ch

\* str.lower()
Lower(s) == [i \in 1..Len(s) |-> LowerChar(s[i])]

\* s.split(sep)[-1] for a one-character separator: the part after the last
\* separator, the whole string when there is none
LastPart(s, sep) ==
    LET cuts == {i \in 1..Len(s) : s[i] = sep}
        last == IF cuts = {} THEN 0 ELSE CHOOSE i \in cuts : \A j \in cuts : j <= i
    IN  SubSeq(s, last + 1, Len(s))

\* s.startswith(p)
StartsWith(s, p) == Len(s) >= Len(p) /\ SubSeq(s, 1, Len(p)) = p

FilePrefix == <<"f", "i", "l", "e", ":">>

(***************************************************************************)
(* Configuration (config.BOT_QQ, config.AI_CHAT_PRESET_NAME)               *)
(***************************************************************************)
BOT_QQ == PyStr(<<"1", "0">>)
AI_CHAT_PRESET_NAME == <<"A", "I">>

(***************************************************************************)
(* Internal segments (nekro_agent.schemas.chat_message)                    *)
(***************************************************************************)
SegText(t) == [type |-> "text", text |-> t]

SegImage(name, path, url) ==
    [type |-> "image", text |-> <<>>, file_name |-> name,
     local_path |-> path, remote_url |-> url]

SegAt(qq, nick) ==
    [type |-> "at", text |-> <<>>, target_qq |-> qq, target_nickname |-> nick]

SegFile(name, path) ==
    [type |-> "file", text |-> <<>>, file_name |-> name, local_path |-> path]

(***************************************************************************)
(* Wire messages: the inputs of convert_chat_message                       *)
(***************************************************************************)
Wire(type, data) == [type |-> type, data |-> data]

NoData == <<>>

WireTexts ==
    { Wire("text", [text |-> <<"h", "i">>]),
      Wire("text", NoData) }

WireImages ==
    { Wire("image", [url |-> <<"u">>, file |-> <<"A", ".", "P">>]),
      Wire("image", [url |-> <<"u">>]),
      Wire("image", [url |-> <<>>, file |-> <<"b">>]),
      Wire("image", [file |-> FilePrefix \o <<"b", ".", "N">>]),
      Wire("image", [file |-> <<"b">>]),
      Wire("image", NoData) }

WireAts ==
    { Wire("at", [qq |-> PyInt(10)]),
      Wire("at", [qq |-> PyStr(<<"1", "0">>)]),
      Wire("at", [qq |-> PyInt(7)]),
      Wire("at", [qq |-> PyStr(<<"0", "1", "0">>)]) }

WireOthers ==
    { Wire("file", NoData),
      Wire("face", [id |-> <<"1">>]) }

WireSegs == WireTexts \cup WireImages \cup WireAts \cup WireOthers

RECURSIVE SeqsUpTo(_, _)
\* all sequences over S of length at most n
SeqsUpTo(S, n) ==
    IF n = 0 THEN {<<>>}
    ELSE LET shorter == SeqsUpTo(S, n - 1)
         IN  shorter \cup {Append(s, x) : s \in shorter, x \in S}

WireMessages == SeqsUpTo(WireSegs, MaxSegs)

GroupId == <<"g">>

\* ob_event: a GroupMessageEvent carries group_id, a private MessageEvent does not
Events ==
    {[is_group |-> TRUE, group_id |-> GroupId, message |-> m] : m \in WireMessages}
    \cup {[is_group |-> FALSE, message |-> m] : m \in WireMessages}

(***************************************************************************)
(* External collaborators: what the awaited calls can return               *)
(***************************************************************************)
\* file names download_file / move_to_upload_dir can hand back
FileNames == {<<"n">>, <<>>}

\* the local path that goes with a generated file name
LocalPathOf(name) == <<"/">> \o name

\* display names get_user_group_card_name can hand back
Nicknames == {<<"k">>}

Pending == [status |-> "pending"]
Raised == [status |-> "raised"]
Returned(v) == [status |-> "ok", value |-> v]

(***************************************************************************)
(* convert_chat_message: one frame, suspended only at its three awaits     *)
(***************************************************************************)
NoReturn == [returned |-> FALSE]

\* lines 36-39: the frame on entry
ConvStart(ev, to_me) ==
    [ob_event |-> ev, msg_to_me |-> to_me, pc |-> "loop", idx |-> 1,
     ret_list |-> <<>>, is_tome |-> FALSE, ret |-> NoReturn,
     calls |-> <<>>, warnings |-> 0]

\* a frame that was never entered
ConvIdle == [ConvStart([is_group |-> FALSE, message |-> <<>>], FALSE) EXCEPT !.pc = "idle"]

ob_message(c) == c.ob_event.message

InLoop(c) == c.pc = "loop" /\ c.idx <= Len(ob_message(c))

\* the wire segment the loop is at
CurSeg(c) == ob_message(c)[c.idx]

\* lines 51-54: the suffix hint of an image segment
ImageSuffix(seg) ==
    IF "file" \in DOMAIN seg.data
    THEN <<".">> \o Lower(LastPart(seg.data.file, "."))
    ELSE <<>>

\* lines 68-70: the path handed to move_to_upload_dir
SegLocalPath(seg) ==
    IF StartsWith(seg.data.file, FilePrefix)
    THEN SubSeq(seg.data.file, Len(FilePrefix) + 1, Len(seg.data.file))
    ELSE seg.data.file

\* a call of an awaited collaborator, as seen from the frame
Call(fn, args, at) == [fn |-> fn, args |-> args, at |-> at, result |-> Pending]

\* a variant of Suspend that appends a placeholder segment before awaiting
Suspend_Placeholder(c, fn, args) ==
    [c EXCEPT !.pc = fn, !.calls = Append(@, Call(fn, args, c.idx)),
              !.ret_list = Append(@, SegText(<<>>))]

\* the frame suspended in an awaited call
Suspend(c, fn, args) ==
    [c EXCEPT !.pc = fn, !.calls = Append(@, Call(fn, args, c.idx))]

\* the pending call gets its outcome
Settle(calls, outcome) == [calls EXCEPT ![Len(calls)].result = outcome]

\* a variant of Emit that puts the new segment in front of the list
Emit_Prepend(c, seg) == [c EXCEPT !.ret_list = <<seg>> \o @, !.idx = @ + 1, !.pc = "loop"]

\* ret_list.append(seg) and on to the next wire segment
Emit(c, seg) == [c EXCEPT !.ret_list = Append(@, seg), !.idx = @ + 1, !.pc = "loop"]

\* lines 42-48
DecodeText(c, cn) ==
    /\ InLoop(c)
    /\ CurSeg(c).type = "text"
    /\ cn = Emit(c, SegText(IF "text" \in DOMAIN CurSeg(c).data
                            THEN CurSeg(c).data.text ELSE <<>>))

\* lines 50-57: await download_file(remote_url, use_suffix=suffix)
ImageDownloadCall(c, cn) ==
    /\ InLoop(c)
    /\ CurSeg(c).type = "image"
    /\ "url" \in DOMAIN CurSeg(c).data
    /\ cn = Suspend(c, "download_file", <<CurSeg(c).data.url, ImageSuffix(CurSeg(c))>>)

\* lines 57-66: the download returned (local_path, file_name)
ImageDownloadReturn(c, cn) ==
    /\ c.pc = "download_file"
    /\ \E name \in FileNames :
          cn = [Emit(c, SegImage(name, LocalPathOf(name), CurSeg(c).data.url))
                  EXCEPT !.calls = Settle(@, Returned(<<LocalPathOf(name), name>>))]

\* a variant of ImageMoveCall that prefers the local file to the remote URL
ImageMoveCall_FileFirst(c, cn) ==
    /\ InLoop(c)
    /\ CurSeg(c).type = "image"
    /\ "file" \in DOMAIN CurSeg(c).data
    /\ cn = Suspend(c, "move_to_upload_dir",
                    <<SegLocalPath(CurSeg(c)), ImageSuffix(CurSeg(c))>>)

\* lines 50-54, 67-71: await move_to_upload_dir(seg_local_path, use_suffix=suffix)
ImageMoveCall(c, cn) ==
    /\ InLoop(c)
    /\ CurSeg(c).type = "image"
    /\ "url" \notin DOMAIN CurSeg(c).data
    /\ "file" \in DOMAIN CurSeg(c).data
    /\ cn = Suspend(c, "move_to_upload_dir",
                    <<SegLocalPath(CurSeg(c)), ImageSuffix(CurSeg(c))>>)

\* lines 71-80: the relocation returned (local_path, file_name)
ImageMoveReturn(c, cn) ==
    /\ c.pc = "move_to_upload_dir"
    /\ \E name \in FileNames :
          cn = [Emit(c, SegImage(name, LocalPathOf(name), <<>>))
                  EXCEPT !.calls = Settle(@, Returned(<<LocalPathOf(name), name>>))]

\* lines 81-83: no url and no file, logger.warning and continue
ImageNoSource(c, cn) ==
    /\ InLoop(c)
    /\ CurSeg(c).type = "image"
    /\ "url" \notin DOMAIN CurSeg(c).data
    /\ "file" \notin DOMAIN CurSeg(c).data
    /\ cn = [c EXCEPT !.warnings = @ + 1, !.idx = @ + 1]

\* a variant of AtAssertFail that lets the mention through as one of the agent
AtAssertFail_Ignored(c, cn) ==
    /\ InLoop(c)
    /\ CurSeg(c).type = "at"
    /\ ~c.ob_event.is_group
    /\ cn = Emit(c, SegAt(Str(CurSeg(c).data.qq), AI_CHAT_PRESET_NAME))

\* lines 85-86: assert isinstance(ob_event, GroupMessageEvent) fails
AtAssertFail(c, cn) ==
    /\ InLoop(c)
    /\ CurSeg(c).type = "at"
    /\ ~c.ob_event.is_group
    /\ cn = [c EXCEPT !.pc = "error"]

RECURSIVE StripZeros(_)
StripZeros(s) == IF Len(s) > 1 /\ Head(s) = "0" THEN StripZeros(Tail(s)) ELSE s

\* a variant of AtQq that compares ids as numbers (leading zeros dropped)
AtQq_Numeric(seg) == StripZeros(Str(seg.data.qq))

\* line 87
AtQq(seg) == Str(seg.data.qq)

\* lines 87-92, 95-102: the mention is of the agent itself
AtSelf(c, cn) ==
    /\ InLoop(c)
    /\ CurSeg(c).type = "at"
    /\ c.ob_event.is_group
    /\ AtQq(CurSeg(c)) = Str(BOT_QQ)
    /\ cn = [Emit(c, SegAt(Str(BOT_QQ), AI_CHAT_PRESET_NAME)) EXCEPT !.is_tome = TRUE]

\* lines 93-94: await get_user_group_card_name(group_id=..., user_id=at_qq)
AtLookupCall(c, cn) ==
    /\ InLoop(c)
    /\ CurSeg(c).type = "at"
    /\ c.ob_event.is_group
    /\ AtQq(CurSeg(c)) # Str(BOT_QQ)
    /\ cn = Suspend(c, "get_user_group_card_name",
                    <<c.ob_event.group_id, AtQq(CurSeg(c))>>)

\* lines 94-102: the lookup returned a display name
AtLookupReturn(c, cn) ==
    /\ c.pc = "get_user_group_card_name"
    /\ \E nick \in Nicknames :
          cn = [Emit(c, SegAt(AtQq(CurSeg(c)), nick))
                  EXCEPT !.calls = Settle(@, Returned(nick))]

AwaitPcs == {"download_file", "move_to_upload_dir", "get_user_group_card_name"}

\* a variant of AwaitRaise that swallows the exception and drops the segment
AwaitRaise_Swallowed(c, cn) ==
    /\ c.pc \in AwaitPcs
    /\ cn = [c EXCEPT !.pc = "loop", !.idx = @ + 1, !.calls = Settle(@, Raised)]

\* lines 57, 71, 94: the awaited call raised; nothing catches it
AwaitRaise(c, cn) ==
    /\ c.pc \in AwaitPcs
    /\ cn = [c EXCEPT !.pc = "error", !.calls = Settle(@, Raised)]

\* lines 57, 71, 94: the task is cancelled while suspended at an await
AwaitCancel(c, cn) ==
    /\ c.pc \in AwaitPcs
    /\ cn = [c EXCEPT !.pc = "cancelled"]

\* a variant of SkipFile that rejects the unsupported kind
SkipFile_Raises(c, cn) ==
    /\ InLoop(c)
    /\ CurSeg(c).type = "file"
    /\ cn = [c EXCEPT !.pc = "error"]

\* lines 104-105: a file segment, nothing done
SkipFile(c, cn) ==
    /\ InLoop(c)
    /\ CurSeg(c).type = "file"
    /\ cn = [c EXCEPT !.idx = @ + 1]

\* lines 41-105: no branch of the if/elif chain matches the kind
SkipOther(c, cn) ==
    /\ InLoop(c)
    /\ CurSeg(c).type \notin {"text", "image", "at", "file"}
    /\ cn = [c EXCEPT !.idx = @ + 1]

\* a variant of WithSyntheticAt that appends the synthetic mention
WithSyntheticAt_Appended(c) ==
    IF c.msg_to_me /\ ~c.is_tome
    THEN c.ret_list \o <<SegAt(Str(BOT_QQ), AI_CHAT_PRESET_NAME)>>
    ELSE c.ret_list

\* a variant of WithSyntheticAt that does not look at is_tome
WithSyntheticAt_Always(c) ==
    IF c.msg_to_me
    THEN <<SegAt(Str(BOT_QQ), AI_CHAT_PRESET_NAME)>> \o c.ret_list
    ELSE c.ret_list

\* lines 107-116: the list after the synthetic mention rule
WithSyntheticAt(c) ==
    IF c.msg_to_me /\ ~c.is_tome
    THEN <<SegAt(Str(BOT_QQ), AI_CHAT_PRESET_NAME)>> \o c.ret_list
    ELSE c.ret_list

\* a variant of ReturnedFlag where the flag is one variable shared by all calls
ReturnedFlag_Shared(c) == conv.is_tome \/ conv2.is_tome

\* line 118: the flag handed back
ReturnedFlag(c) == c.is_tome

\* lines 107-118: the loop is over
ConvReturn(c, cn) ==
    /\ c.pc = "loop"
    /\ c.idx > Len(ob_message(c))
    /\ cn = [c EXCEPT !.pc = "done",
                      !.ret_list = WithSyntheticAt(c),
                      !.ret = [returned |-> TRUE, list |-> WithSyntheticAt(c),
                               flag |-> ReturnedFlag(c)]]

(***************************************************************************)
(* convert_chat_message_to_prompt_str: one frame, one step per segment     *)
(***************************************************************************)
\* get_downloaded_prompt_file_path(file_name): the path the prompt shows
PromptPath(file_name) == <<"d", "/">> \o file_name

\* lines 131-133: the frame on entry
EncStart(list, code) ==
    [chat_message |-> list, one_time_code |-> code, pc |-> "loop",
     i |-> 1, prompt_str |-> <<>>, ret |-> NoReturn]

\* a frame that was never entered
EncIdle == [EncStart(<<>>, <<>>) EXCEPT !.pc = "idle"]

EncInLoop(e) == e.pc = "loop" /\ e.i <= Len(e.chat_message)

\* the segment the loop is at
EncSeg(e) == e.chat_message[e.i]

\* a variant of ImageMarker that leaves the one-time code out
ImageMarker_NoCode(code, seg) ==
    <<"<", " ", "|", " ", "I", "m", "a", "g", "e", ":">>
    \o PromptPath(seg.file_name) \o <<">">>

\* line 135: f"<{one_time_code} | Image:{...}>"
ImageMarker(code, seg) ==
    <<"<">> \o code \o <<" ", "|", " ", "I", "m", "a", "g", "e", ":">>
    \o PromptPath(seg.file_name) \o <<">">>

\* line 137: f"<{one_time_code} | File:{...}>"
FileMarker(code, seg) ==
    <<"<">> \o code \o <<" ", "|", " ", "F", "i", "l", "e", ":">>
    \o PromptPath(seg.file_name) \o <<">">>

\* a variant of AtMarker with the two fields in the other order
AtMarker_Swapped(code, seg) ==
    <<"<">> \o code \o <<" ", "|", " ", "A", "t", ":", "[", "@", "q", "q", ":">>
    \o seg.target_nickname \o <<";", "n", "i", "c", "k", "n", "a", "m", "e", ":">>
    \o seg.target_qq \o <<"@", "]", ">">>

\* line 139: f"<{one_time_code} | At:[@qq:{...};nickname:{...}@]>"
AtMarker(code, seg) ==
    <<"<">> \o code \o <<" ", "|", " ", "A", "t", ":", "[", "@", "q", "q", ":">>
    \o seg.target_qq \o <<";", "n", "i", "c", "k", "n", "a", "m", "e", ":">>
    \o seg.target_nickname \o <<"@", "]", ">">>

\* prompt_str += piece and on to the next segment
EncAdd(e, piece) == [e EXCEPT !.prompt_str = @ \o piece, !.i = @ + 1]

\* lines 134-135
EncodeImage(e, en) ==
    /\ EncInLoop(e)
    /\ EncSeg(e).type = "image"
    /\ en = EncAdd(e, ImageMarker(e.one_time_code, EncSeg(e)))

\* lines 136-137
EncodeFile(e, en) ==
    /\ EncInLoop(e)
    /\ EncSeg(e).type = "file"
    /\ en = EncAdd(e, FileMarker(e.one_time_code, EncSeg(e)))

\* lines 138-139
EncodeAt(e, en) ==
    /\ EncInLoop(e)
    /\ EncSeg(e).type = "at"
    /\ en = EncAdd(e, AtMarker(e.one_time_code, EncSeg(e)))

\* lines 140-141: any other ChatMessageSegment, its text
EncodeText(e, en) ==
    /\ EncInLoop(e)
    /\ EncSeg(e).type \notin {"image", "file", "at"}
    /\ en = EncAdd(e, EncSeg(e).text)

\* line 143
EncReturn(e, en) ==
    /\ e.pc = "loop"
    /\ e.i > Len(e.chat_message)
    /\ en = [e EXCEPT !.pc = "done",
                      !.ret = [returned |-> TRUE, value |-> e.prompt_str]]

(***************************************************************************)
(* Inputs of convert_chat_message_to_prompt_str                            *)
(***************************************************************************)
EncTexts ==
    { SegText(<<"h", "e", "l", "l", "o">>),
      SegText(<<"<", "c">>),
      SegText(<<"d", " ", "|", " ">>),
      SegText(<<" ", "|", " ">>),
      SegText(<<"c", "d">>) }

EncMarked ==
    { SegImage(<<"n">>, LocalPathOf(<<"n">>), <<"u">>),
      SegFile(<<"n">>, LocalPathOf(<<"n">>)),
      SegAt(<<"1", "0">>, AI_CHAT_PRESET_NAME),
      SegAt(<<"7">>, <<"<", "c", "d", " ", "|", " ">>),
      SegAt(<<"7">>, <<"<">>) }

EncSegs == EncTexts \cup EncMarked

EncLists == SeqsUpTo(EncSegs, MaxEncSegs)

\* one-time codes: an alphanumeric one, one made of marker punctuation, none
OneTimeCodes == { <<"c", "d">>, <<"@", "]", ">">>, <<>> }

(***************************************************************************)
(* The persisted record: a JSON array of segment objects                   *)
(* (json.dumps of the segments' dumps, json.loads, segments_from_list)     *)
(***************************************************************************)
K_type == <<"t", "y", "p", "e">>
K_text == <<"t", "e", "x", "t">>
K_file_name == <<"f", "i", "l", "e", "_", "n", "a", "m", "e">>
K_local_path == <<"l", "o", "c", "a", "l", "_", "p", "a", "t", "h">>
K_remote_url == <<"r", "e", "m", "o", "t", "e", "_", "u", "r", "l">>
K_target_qq == <<"t", "a", "r", "g", "e", "t", "_", "q", "q">>
K_target_nickname ==
    <<"t", "a", "r", "g", "e", "t", "_", "n", "i", "c", "k", "n", "a", "m", "e">>

\* ChatMessageSegmentType values as they are written into the record
T_text == <<"t", "e", "x", "t">>
T_image == <<"i", "m", "a", "g", "e">>
T_at == <<"a", "t">>
T_file == <<"f", "i", "l", "e">>

\* the dump of one segment: its fields in declaration order, as (key, value)
SegmentDump(seg) ==
    CASE seg.type = "text" ->
           << <<K_type, T_text>>, <<K_text, seg.text>> >>
      [] seg.type = "image" ->
           << <<K_type, T_image>>, <<K_text, seg.text>>,
              <<K_file_name, seg.file_name>>, <<K_local_path, seg.local_path>>,
              <<K_remote_url, seg.remote_url>> >>
      [] seg.type = "at" ->
           << <<K_type, T_at>>, <<K_text, seg.text>>,
              <<K_target_qq, seg.target_qq>>,
              <<K_target_nickname, seg.target_nickname>> >>
      [] seg.type = "file" ->
           << <<K_type, T_file>>, <<K_text, seg.text>>,
              <<K_file_name, seg.file_name>>, <<K_local_path, seg.local_path>> >>

RECURSIVE JsonEscape(_)
\* json.dumps of the characters of a string: quote and backslash escaped
JsonEscape(str) ==
    IF str = <<>> THEN <<>>
    ELSE (IF Head(str) \in {"\"", "\\"} THEN <<"\\", Head(str)>> ELSE <<Head(str)>>)
         \o JsonEscape(Tail(str))

JsonString(str) == <<"\"">> \o JsonEscape(str) \o <<"\"">>

RECURSIVE JoinWith(_, _)
\* ", ".join(parts)
JoinWith(parts, sep) ==
    IF parts = <<>> THEN <<>>
    ELSE IF Len(parts) = 1 THEN parts[1]
    ELSE parts[1] \o sep \o JoinWith(Tail(parts), sep)

\* json.dumps of one dump: {"key": "value", ...}
JsonObject(dump) ==
    <<"{">>
    \o JoinWith([i \in 1..Len(dump) |->
                    JsonString(dump[i][1]) \o <<":", " ">> \o JsonString(dump[i][2])],
                <<",", " ">>)
    \o <<"}">>

\* json.dumps of the list of dumps: [{...}, {...}]
JsonDumps(dumps) ==
    <<"[">>
    \o JoinWith([i \in 1..Len(dumps) |-> JsonObject(dumps[i])], <<",", " ">>)
    \o <<"]">>

\* the persisted JSON form of a segment list
RenderAsJson(list) == JsonDumps([i \in 1..Len(list) |-> SegmentDump(list[i])])

ParseFail == [ok |-> FALSE]
Parsed(v, p) == [ok |-> TRUE, value |-> v, pos |-> p]

RECURSIVE SkipWs(_, _)
\* the position of the first non-blank character from p on
SkipWs(t, p) == IF p <= Len(t) /\ t[p] = " " THEN SkipWs(t, p + 1) ELSE p

RECURSIVE ScanString(_, _, _)
\* the characters of a JSON string up to its closing quote
ScanString(t, p, acc) ==
    IF p > Len(t) THEN ParseFail
    ELSE IF t[p] = "\"" THEN Parsed(acc, p + 1)
    ELSE IF t[p] = "\\"
         THEN (IF p + 1 <= Len(t) /\ t[p + 1] \in {"\"", "\\"}
               THEN ScanString(t, p + 2, Append(acc, t[p + 1]))
               ELSE ParseFail)
    ELSE ScanString(t, p + 1, Append(acc, t[p]))

\* a JSON string at p
ParseString(t, p) ==
    IF p <= Len(t) /\ t[p] = "\"" THEN ScanString(t, p + 1, <<>>) ELSE ParseFail

RECURSIVE ParseMembers(_, _, _)
\* the members of a JSON object after its opening brace: (key, value) pairs
ParseMembers(t, p, acc) ==
    LET k == ParseString(t, SkipWs(t, p))
    IN  IF ~k.ok THEN ParseFail
        ELSE LET c == SkipWs(t, k.pos)
             IN  IF c > Len(t) \/ t[c] # ":" THEN ParseFail
                 ELSE LET v == ParseString(t, SkipWs(t, c + 1))
                      IN  IF ~v.ok THEN ParseFail
                          ELSE LET e == SkipWs(t, v.pos)
                                   pairs == Append(acc, <<k.value, v.value>>)
                               IN  IF e > Len(t) THEN ParseFail
                                   ELSE IF t[e] = "}" THEN Parsed(pairs, e + 1)
                                   ELSE IF t[e] = "," THEN ParseMembers(t, e + 1, pairs)
                                   ELSE ParseFail

\* the dict of a list of (key, value) pairs: a later pair wins
DictOf(pairs) ==
    [k \in {pairs[i][1] : i \in 1..Len(pairs)} |->
        pairs[CHOOSE i \in 1..Len(pairs) :
                 /\ pairs[i][1] = k
                 /\ \A j \in 1..Len(pairs) : pairs[j][1] = k => j <= i][2]]

\* a JSON object at p, as a dict
ParseObject(t, p) ==
    IF p > Len(t) \/ t[p] # "{" THEN ParseFail
    ELSE IF SkipWs(t, p + 1) <= Len(t) /\ t[SkipWs(t, p + 1)] = "}"
         THEN Parsed(<<>>, SkipWs(t, p + 1) + 1)
    ELSE LET m == ParseMembers(t, p + 1, <<>>)
         IN  IF m.ok THEN Parsed(DictOf(m.value), m.pos) ELSE ParseFail

RECURSIVE ParseElements(_, _, _)
\* the elements of a JSON array after its opening bracket
ParseElements(t, p, acc) ==
    LET o == ParseObject(t, SkipWs(t, p))
    IN  IF ~o.ok THEN ParseFail
        ELSE LET e == SkipWs(t, o.pos)
                 items == Append(acc, o.value)
             IN  IF e > Len(t) THEN ParseFail
                 ELSE IF t[e] = "]" THEN Parsed(items, e + 1)
                 ELSE IF t[e] = "," THEN ParseElements(t, e + 1, items)
                 ELSE ParseFail

\* json.loads(text) for an array of objects with string values
JsonLoads(t) ==
    LET p == SkipWs(t, 1)
    IN  IF p > Len(t) \/ t[p] # "[" THEN ParseFail
        ELSE LET q == SkipWs(t, p + 1)
                 r == IF q <= Len(t) /\ t[q] = "]" THEN Parsed(<<>>, q + 1)
                      ELSE ParseElements(t, p + 1, <<>>)
             IN  IF r.ok /\ SkipWs(t, r.pos) = Len(t) + 1 THEN r ELSE ParseFail

HasKeys(d, keys) == keys \subseteq DOMAIN d

\* the dict names a known variant and carries its fields
ValidSegmentDict(d) ==
    /\ HasKeys(d, {K_type})
    /\ \/ d[K_type] = T_text /\ HasKeys(d, {K_text})
       \/ d[K_type] = T_image
            /\ HasKeys(d, {K_text, K_file_name, K_local_path, K_remote_url})
       \/ d[K_type] = T_at /\ HasKeys(d, {K_text, K_target_qq, K_target_nickname})
       \/ d[K_type] = T_file /\ HasKeys(d, {K_text, K_file_name, K_local_path})

\* the segment of one dict of the record, by its type tag
SegmentFromDict(d) ==
    CASE d[K_type] = T_text -> [type |-> "text", text |-> d[K_text]]
      [] d[K_type] = T_image ->
           [type |-> "image", text |-> d[K_text], file_name |-> d[K_file_name],
            local_path |-> d[K_local_path], remote_url |-> d[K_remote_url]]
      [] d[K_type] = T_at ->
           [type |-> "at", text |-> d[K_text], target_qq |-> d[K_target_qq],
            target_nickname |-> d[K_target_nickname]]
      [] d[K_type] = T_file ->
           [type |-> "file", text |-> d[K_text], file_name |-> d[K_file_name],
            local_path |-> d[K_local_path]]

\* segments_from_list(dicts)
segments_from_list(dicts) == [i \in 1..Len(dicts) |-> SegmentFromDict(dicts[i])]

(***************************************************************************)
(* convert_raw_msg_data_json_to_msg_prompt: decodes, then runs the encoder *)
(***************************************************************************)
\* line 146: the frame on entry; source is the list the record was rendered
\* from, kept beside the frame to state properties, never read by a step
RawStart(json_data, code, source) ==
    [json_data |-> json_data, one_time_code |-> code, pc |-> "decode",
     ret |-> NoReturn, source |-> source]

\* a frame that was never entered
RawIdle == [RawStart(<<>>, <<>>, <<>>) EXCEPT !.pc = "idle"]

\* json.loads accepts the text and segments_from_list accepts every dict
Decodable(json_data) ==
    IF JsonLoads(json_data).ok
    THEN \A i \in 1..Len(JsonLoads(json_data).value) :
            ValidSegmentDict(JsonLoads(json_data).value[i])
    ELSE FALSE

\* a variant of RawDecode that hands the encoder the list without its last segment
RawDecode_DropLast(r, rn, en) ==
    /\ r.pc = "decode"
    /\ Decodable(r.json_data)
    /\ rn = [r EXCEPT !.pc = "encode"]
    /\ en = EncStart(LET l == segments_from_list(JsonLoads(r.json_data).value)
                     IN  SubSeq(l, 1, Len(l) - 1), r.one_time_code)

\* line 156: segments_from_list(json.loads(json_data)), handed to the encoder
RawDecode(r, rn, en) ==
    /\ r.pc = "decode"
    /\ Decodable(r.json_data)
    /\ rn = [r EXCEPT !.pc = "encode"]
    /\ en = EncStart(segments_from_list(JsonLoads(r.json_data).value), r.one_time_code)

\* line 156: json.loads or segments_from_list raised
RawDecodeRaise(r, rn) ==
    /\ r.pc = "decode"
    /\ ~Decodable(r.json_data)
    /\ rn = [r EXCEPT !.pc = "error"]

\* line 156: the encoder returned, its string is handed back
RawReturn(r, e, rn) ==
    /\ r.pc = "encode"
    /\ e.pc = "done"
    /\ rn = [r EXCEPT !.pc = "done", !.ret = e.ret]

(***************************************************************************)
(* Inputs of convert_raw_msg_data_json_to_msg_prompt                       *)
(***************************************************************************)
\* longest segment list persisted as a record
MaxRawSegs == 2

RawSegs ==
    { SegText(<<"h", "i">>),
      SegText(<<"a", "\"", "\\", "b">>),
      SegText(<<>>),
      SegImage(<<"n">>, LocalPathOf(<<"n">>), <<"u">>),
      SegImage(<<"n">>, LocalPathOf(<<"n">>), <<>>),
      SegAt(<<"1", "0">>, AI_CHAT_PRESET_NAME),
      SegAt(<<"7">>, <<"k", "\"">>) }

RawLists == SeqsUpTo(RawSegs, MaxRawSegs)

RawCodes == { <<"c", "d">>, <<>> }

\* records that cannot be decoded: cut-off JSON, an unknown type tag
BadRecords ==
    { <<"[", "{">>,
      JsonDumps(<< << <<K_type, <<"v", "i", "d", "e", "o">> >>, <<K_text, <<>> >> >> >>) }

(***************************************************************************)
(* The command handlers of matchers/command.py and the state they act on   *)
(***************************************************************************)
PyBool(b) == [bool |-> b]
PyList(l) == [list |-> l]

\* str.strip(): leading and trailing blanks removed
Strip(s) ==
    LET keep == {i \in 1..Len(s) : s[i] # " "}
    IN  IF keep = {} THEN <<>>
        ELSE SubSeq(s, CHOOSE i \in keep : \A j \in keep : i <= j,
                       CHOOSE i \in keep : \A j \in keep : j <= i)

\* s.split(sep, 1): one part when sep does not occur, else the parts around
\* its first occurrence
SplitOnce(s, sep) ==
    LET cuts == {i \in 1..Len(s) : s[i] = sep}
        first == CHOOSE i \in cuts : \A j \in cuts : i <= j
    IN  IF cuts = {} THEN <<s>>
        ELSE <<SubSeq(s, 1, first - 1), SubSeq(s, first + 1, Len(s))>>

RECURSIVE Split(_, _)
\* s.split(sep): the parts between the occurrences of sep, empty parts kept
Split(s, sep) ==
    IF Len(SplitOnce(s, sep)) = 1 THEN <<s>>
    ELSE <<SplitOnce(s, sep)[1]>> \o Split(SplitOnce(s, sep)[2], sep)

\* x in list
Contains(list, x) == \E i \in 1..Len(list) : list[i] = x

\* list.remove(x): the first occurrence taken out (the handlers call it only
\* on a list that holds x; a list without x is left as it is)
Remove(list, x) ==
    IF ~Contains(list, x) THEN list
    ELSE LET at == CHOOSE i \in 1..Len(list) :
                      list[i] = x /\ \A j \in 1..(i - 1) : list[j] # x
         IN  SubSeq(list, 1, at - 1) \o SubSeq(list, at + 1, Len(list))

\* the text is a run of decimal digits, what int() accepts without sign or blanks
IsDigits(s) == s # <<>> /\ \A i \in 1..Len(s) : \E d \in 1..10 : DigitChars[d] = s[i]

RECURSIVE IntOf(_)
\* int(s) of a run of decimal digits
IntOf(s) ==
    IF s = <<>> THEN 0
    ELSE 10 * IntOf(SubSeq(s, 1, Len(s) - 1))
         + ((CHOOSE d \in 1..10 : DigitChars[d] = s[Len(s)]) - 1)

\* user ids of senders
SuperUser == <<"1">>
OtherUser == <<"2">>
UserIds == {SuperUser, OtherUser}

\* chat keys as get_chat_info forms them
GroupChat == <<"g", "r", "o", "u", "p", "_", "1">>
PrivateChat == <<"p", "r", "i", "v", "a", "t", "e", "_", "2">>
ChatKeys == {GroupChat, PrivateChat}

\* channel.chat_type
ChatTypeOf(chat_key) == IF StartsWith(chat_key, <<"g", "r", "o", "u", "p", "_">>) THEN "group" ELSE "private"

\* names of configuration fields
Key_ENABLE_COMMAND_UNAUTHORIZED_OUTPUT == <<"E", "N", "A", "B", "L", "E", "_", "C", "O", "M", "M", "A", "N", "D", "_", "U", "N", "A", "U", "T", "H", "O", "R", "I", "Z", "E", "D", "_", "O", "U", "T", "P", "U", "T">>
Key_AI_CHAT_PRESET_NAME == <<"A", "I", "_", "C", "H", "A", "T", "_", "P", "R", "E", "S", "E", "T", "_", "N", "A", "M", "E">>
Key_AI_CHAT_CONTEXT_MAX_LENGTH == <<"A", "I", "_", "C", "H", "A", "T", "_", "C", "O", "N", "T", "E", "X", "T", "_", "M", "A", "X", "_", "L", "E", "N", "G", "T", "H">>
Key_SUPER_USERS == <<"S", "U", "P", "E", "R", "_", "U", "S", "E", "R", "S">>

ConfigKeys ==
    { Key_ENABLE_COMMAND_UNAUTHORIZED_OUTPUT, Key_AI_CHAT_PRESET_NAME,
      Key_AI_CHAT_CONTEXT_MAX_LENGTH, Key_SUPER_USERS }

\* config.model_dump(): a bool, a str, an int and a list field
Config(unauthorized_output) ==
    [k \in ConfigKeys |->
        CASE k = Key_ENABLE_COMMAND_UNAUTHORIZED_OUTPUT -> PyBool(unauthorized_output)
          [] k = Key_AI_CHAT_PRESET_NAME -> PyStr(AI_CHAT_PRESET_NAME)
          [] k = Key_AI_CHAT_CONTEXT_MAX_LENGTH -> PyInt(2)
          [] k = Key_SUPER_USERS -> PyList(<<SuperUser>>)]

\* seconds: the window in which a second nekro_db_reset confirms the first
ResetWindow == 60

\* time.time() when the model starts, long after the epoch
StartTime == 100

\* what a handler says back: the message template and what is put into it
Reply(id, args) == [id |-> id, args |-> args]
NoReply == Reply("none", <<>>)

\* a call of something outside the handlers, as the handler made it
Effect(fn, args) == [fn |-> fn, args |-> args]

\* one incoming command: its handler, the sender, the chat and the argument text
Invocation(handler, user_id, chat_key, text) ==
    [handler |-> handler, user_id |-> user_id, chat_key |-> chat_key, text |-> text]

\* the frame of a handler on entry, about to run command_guard
CmdFrame(inv) ==
    [handler |-> inv.handler, user_id |-> inv.user_id, chat_key |-> inv.chat_key,
     text |-> inv.text, pc |-> "guard", cmd_content |-> <<>>,
     target_chat_key |-> <<>>, msg_cnt |-> 0, at |-> 0, did |-> <<>>,
     deleted |-> {}, reply |-> NoReply]

NoFrame == [CmdFrame(Invocation("none", <<>>, <<>>, <<>>)) EXCEPT !.pc = "idle"]

\* the process on start: module globals, config, the tables, no handler running
CmdStart(unauthorized_output, in_docker) ==
    [now |-> StartTime,
     DB_RESET_LATEST_TRIGGER_TIME |-> 0,
     messages |-> {},
     next_id |-> 1,
     active |-> [k \in ChatKeys |-> TRUE],
     config |-> Config(unauthorized_output),
     RUN_IN_DOCKER |-> in_docker,
     frame |-> NoFrame,
     history |-> <<>>,
     ticks |-> 0]

CmdIdle == CmdStart(FALSE, FALSE)

\* event.get_user_id() in config.SUPER_USERS
IsSuperUser(c, user_id) == Contains(c.config[Key_SUPER_USERS].list, user_id)

\* matcher.finish(...) raises FinishedException: the handler is over
Finish(f, reply) == [f EXCEPT !.pc = "finished", !.reply = reply]

\* an exception nothing catches: the handler is over
Fail(f) == [f EXCEPT !.pc = "error"]

\* the handler has ended with frame f
End(c, f) == [c EXCEPT !.frame = f, !.history = Append(@, f)]

\* a command arrives while no handler is running
Dispatch(c, cn, inv, max) ==
    /\ c.frame.pc \in {"idle", "finished", "error"}
    /\ Len(c.history) < max
    /\ cn = [c EXCEPT !.frame = CmdFrame(inv)]

\* lines 48-55: the sender is not a super user, the handler is finished
GuardReject(c, cn) ==
    /\ c.frame.pc = "guard"
    /\ ~IsSuperUser(c, c.frame.user_id)
    /\ cn = End(c, Finish(c.frame,
                          IF c.config[Key_ENABLE_COMMAND_UNAUTHORIZED_OUTPUT].bool
                          THEN Reply("user_not_allowed", <<c.frame.user_id>>)
                          ELSE NoReply))

\* a variant of GuardPass that lets every sender through
GuardPass_Anyone(c, cn) ==
    /\ c.frame.pc = "guard"
    /\ cn = [c EXCEPT !.frame.pc = "body", !.frame.cmd_content = Strip(c.frame.text)]

\* lines 48-59: the sender is a super user, the handler goes on
GuardPass(c, cn) ==
    /\ c.frame.pc = "guard"
    /\ IsSuperUser(c, c.frame.user_id)
    /\ cn = [c EXCEPT !.frame.pc = "body", !.frame.cmd_content = Strip(c.frame.text)]

\* the handler is past command_guard
InBody(c, handler) == c.frame.pc = "body" /\ c.frame.handler = handler

\* cmd_content or chat_key
TargetChatKey(f) == IF f.cmd_content # <<>> THEN f.cmd_content ELSE f.chat_key

\* DBChatMessage.filter(chat_key=target_chat_key)
Query(c, chat_key) == {m \in c.messages : m.chat_key = chat_key}

\* lines 66-70: reset, up to reset_channel()
ResetChannel(c, cn) ==
    /\ InBody(c, "reset")
    /\ IF TargetChatKey(c.frame) = <<>>
       THEN cn = End(c, Finish(c.frame, Reply("reset_no_target", <<>>)))
       ELSE cn = [c EXCEPT !.frame.pc = "count",
                           !.frame.target_chat_key = TargetChatKey(c.frame),
                           !.frame.did = Append(@, Effect("reset_channel",
                                                          <<TargetChatKey(c.frame)>>))]

\* line 72: msg_cnt = await query.count()
ResetCount(c, cn) ==
    /\ c.frame.pc = "count"
    /\ cn = [c EXCEPT !.frame.pc = "delete",
                      !.frame.msg_cnt = Cardinality(Query(c, c.frame.target_chat_key))]

\* lines 73-74: await query.delete(), then the reply with msg_cnt
ResetDelete(c, cn) ==
    /\ c.frame.pc = "delete"
    /\ cn = End([c EXCEPT !.messages = @ \ Query(c, c.frame.target_chat_key)],
                Finish([c.frame EXCEPT !.deleted = Query(c, c.frame.target_chat_key)],
                       Reply("reset_done", <<c.frame.msg_cnt, c.frame.target_chat_key>>)))

\* what limited_run_code can hand back
ExecResults == {<<>>, <<"o">>}

\* lines 104-108: exec
Exec(c, cn) ==
    /\ InBody(c, "exec")
    /\ \E result \in ExecResults :
          cn = End(c, Finish([c.frame EXCEPT !.did =
                                 Append(@, Effect("limited_run_code",
                                                  <<c.frame.cmd_content, c.frame.chat_key>>))],
                             IF result # <<>> THEN Reply("exec_result", <<result>>)
                             ELSE NoReply))

\* the channels a na_on / na_off target names
TargetChannels(c, target) ==
    IF target = <<"*">> THEN DOMAIN c.active
    ELSE IF target = <<"p", "r", "i", "v", "a", "t", "e", "_", "*">> THEN {k \in DOMAIN c.active : ChatTypeOf(k) = "private"}
    ELSE IF target = <<"g", "r", "o", "u", "p", "_", "*">> THEN {k \in DOMAIN c.active : ChatTypeOf(k) = "group"}
    ELSE {target}

\* set_active(flag) on each of the channels
SetActive(active, keys, flag) ==
    [k \in DOMAIN active \cup keys |-> IF k \in keys THEN flag ELSE active[k]]

\* lines 147-170 and 176-205: na_on (flag True) and na_off (flag False)
NaSet(c, cn, handler, flag) ==
    /\ InBody(c, handler)
    /\ IF TargetChatKey(c.frame) = <<>>
       THEN cn = End(c, Finish(c.frame, Reply("na_no_target", <<>>)))
       ELSE cn = End([c EXCEPT !.active =
                         SetActive(@, TargetChannels(c, TargetChatKey(c.frame)), flag)],
                     Finish(c.frame, Reply(handler, <<TargetChatKey(c.frame)>>)))

NaOn(c, cn) == NaSet(c, cn, "na_on", TRUE)

NaOff(c, cn) == NaSet(c, cn, "na_off", FALSE)

\* isinstance(v, (int, float)): holds of an int and, bool being a subclass of
\* int, of a bool
IsIntOrFloat(v) == "int" \in DOMAIN v \/ "bool" \in DOMAIN v

\* isinstance(v, bool)
IsBool(v) == "bool" \in DOMAIN v

\* isinstance(v, str)
IsStr(v) == "str" \in DOMAIN v

\* type(v)(value) does not raise: bool(str) never does, int(str) needs a number
TypeCallOk(v, value) == IsBool(v) \/ IsDigits(value)

\* type(v)(value): bool(str) is True of every non-empty str, int(str) parses
TypeCall(v, value) ==
    IF IsBool(v) THEN PyBool(value # <<>>) ELSE PyInt(IntOf(value))

\* the spellings conf_set reads as True and as False
TrueWords == {<<"t", "r", "u", "e">>, <<"1">>, <<"y", "e", "s">>}
FalseWords == {<<"f", "a", "l", "s", "e">>, <<"0">>, <<"n", "o">>}

\* lines 240-258: conf_set on a key the configuration has
ConfSetKnown(c, f, key, value) ==
    LET v == c.config[key]
        set(x) == End([c EXCEPT !.config[key] = x],
                      Finish(f, Reply("conf_set_done", <<key, value>>)))
    IN  IF IsIntOrFloat(v)
        THEN (IF TypeCallOk(v, value) THEN set(TypeCall(v, value)) ELSE End(c, Fail(f)))
        ELSE IF IsBool(v)
        THEN (IF Lower(value) \in TrueWords THEN set(PyBool(TRUE))
              ELSE IF Lower(value) \in FalseWords THEN set(PyBool(FALSE))
              ELSE End(c, Finish(f, Reply("conf_set_bool_only", <<key>>))))
        ELSE IF IsStr(v) THEN set(PyStr(value))
        ELSE End(c, Finish(f, Reply("conf_set_unsupported_type", <<key>>)))

\* lines 233-258: conf_set
ConfSet(c, cn) ==
    /\ InBody(c, "conf_set")
    /\ LET parts == SplitOnce(Strip(c.frame.cmd_content), "=")
       IN  IF Len(parts) # 2
           THEN cn = End(c, Finish(c.frame, Reply("conf_set_bad_format", <<>>)))
           ELSE IF parts[1] = <<>> \/ parts[2] = <<>>
           THEN cn = End(c, Fail(c.frame))
           ELSE IF parts[1] \in DOMAIN c.config
           THEN cn = ConfSetKnown(c, c.frame, parts[1], parts[2])
           ELSE cn = End(c, Finish(c.frame, Reply("conf_set_unknown_key", <<parts[1]>>)))

\* lines 365-369: docker_restart
DockerRestart(c, cn) ==
    /\ InBody(c, "docker_restart")
    /\ IF ~c.RUN_IN_DOCKER
       THEN cn = End(c, Finish(c.frame, Reply("not_in_docker", <<>>)))
       ELSE cn = End(c, Finish([c.frame EXCEPT !.did =
                                   Append(@, Effect("os.system",
                                       <<<<"d", "o", "c", "k", "e", "r", " ", "r", "e", "s", "t", "a", "r", "t", " ">>
                                         \o (IF c.frame.cmd_content # <<>>
                                             THEN c.frame.cmd_content
                                             ELSE <<"n", "e", "k", "r", "o", "_", "a", "g", "e", "n", "t">>)>>))],
                               NoReply))

\* lines 389-390: sh
Sh(c, cn) ==
    /\ InBody(c, "sh")
    /\ cn = End(c, Finish([c.frame EXCEPT !.did =
                              Append(@, Effect("os.popen", <<c.frame.cmd_content>>))],
                          Reply("sh_output", <<c.frame.cmd_content>>)))

\* a variant of Confirmed that takes every invocation as confirmed
Confirmed_Always(args) == TRUE

\* line 411: "-y" in args
Confirmed(args) == Contains(args, <<"-", "y">>)

\* a variant of DbResetConfirm where a performed reset also closes the window
DbResetConfirm_ClosesWindow(c, f, args) ==
    IF Confirmed(args)
    THEN LET rest == Remove(args, <<"-", "y">>)
             closed == [c EXCEPT !.DB_RESET_LATEST_TRIGGER_TIME = 0]
         IN  IF Len(rest) > 1
             THEN End(c, Finish(f, Reply("db_reset_bad_args", <<>>)))
             ELSE IF Len(rest) = 1
             THEN End(closed,
                      Finish([f EXCEPT !.did = Append(@, Effect("reset_db", <<rest[1]>>))],
                             Reply("db_reset_table_done", <<rest[1]>>)))
             ELSE End(closed,
                      Finish([f EXCEPT !.did = Append(@, Effect("reset_db", <<>>))],
                             Reply("db_reset_done", <<>>)))
    ELSE End(c, Finish(f, Reply("db_reset_need_y", <<>>)))

\* lines 411-422: nekro_db_reset inside the window
DbResetConfirm(c, f, args) ==
    IF Confirmed(args)
    THEN LET rest == Remove(args, <<"-", "y">>)
         IN  IF Len(rest) > 1
             THEN End(c, Finish(f, Reply("db_reset_bad_args", <<>>)))
             ELSE IF Len(rest) = 1
             THEN End(c,
                      Finish([f EXCEPT !.did = Append(@, Effect("reset_db", <<rest[1]>>))],
                             Reply("db_reset_table_done", <<rest[1]>>)))
             ELSE End(c,
                      Finish([f EXCEPT !.did = Append(@, Effect("reset_db", <<>>))],
                             Reply("db_reset_done", <<>>)))
    ELSE End(c, Finish(f, Reply("db_reset_need_y", <<>>)))

\* lines 401-422: nekro_db_reset
DbReset(c, cn) ==
    /\ InBody(c, "nekro_db_reset")
    /\ LET f == [c.frame EXCEPT !.at = c.now]
       IN  IF c.now - c.DB_RESET_LATEST_TRIGGER_TIME > ResetWindow
           THEN cn = End([c EXCEPT !.DB_RESET_LATEST_TRIGGER_TIME = c.now],
                         Finish(f, Reply("db_reset_prompt", <<>>)))
           ELSE cn = DbResetConfirm(c, f, Split(c.frame.cmd_content, " "))

\* the steps time.time() moves by between two looks at it
TickSteps == {1, ResetWindow}

\* most steps of the clock in one run
MaxTicks == 2

\* time passes
Tick(c, cn, d) ==
    /\ c.ticks < MaxTicks
    /\ cn = [c EXCEPT !.now = @ + d, !.ticks = @ + 1]

\* most chat records stored in one run
MaxInserts == 2

\* a chat record is stored for a chat key while handlers run
InsertMessage(c, cn, chat_key) ==
    /\ c.next_id <= MaxInserts
    /\ cn = [c EXCEPT !.messages = @ \cup {[id |-> c.next_id, chat_key |-> chat_key]},
                      !.next_id = @ + 1]

(***************************************************************************)
(* Spec: one convert_chat_message call on any event of the bounded set     *)
(***************************************************************************)
Init ==
    /\ conv \in {ConvStart(ev, to_me) : ev \in Events, to_me \in BOOLEAN}
    /\ enc = EncIdle
    /\ conv2 = ConvIdle
    /\ raw = RawIdle
    /\ cmd = CmdIdle

StepDecodeText == DecodeText(conv, conv') /\ UNCHANGED OtherThanConv
StepImageDownloadCall == ImageDownloadCall(conv, conv') /\ UNCHANGED OtherThanConv
StepImageDownloadReturn == ImageDownloadReturn(conv, conv') /\ UNCHANGED OtherThanConv
StepImageMoveCall == ImageMoveCall(conv, conv') /\ UNCHANGED OtherThanConv
StepImageMoveReturn == ImageMoveReturn(conv, conv') /\ UNCHANGED OtherThanConv
StepImageNoSource == ImageNoSource(conv, conv') /\ UNCHANGED OtherThanConv
StepAtAssertFail == AtAssertFail(conv, conv') /\ UNCHANGED OtherThanConv
StepAtSelf == AtSelf(conv, conv') /\ UNCHANGED OtherThanConv
StepAtLookupCall == AtLookupCall(conv, conv') /\ UNCHANGED OtherThanConv
StepAtLookupReturn == AtLookupReturn(conv, conv') /\ UNCHANGED OtherThanConv
StepAwaitRaise == AwaitRaise(conv, conv') /\ UNCHANGED OtherThanConv
StepAwaitCancel == AwaitCancel(conv, conv') /\ UNCHANGED OtherThanConv
StepSkipFile == SkipFile(conv, conv') /\ UNCHANGED OtherThanConv
StepSkipOther == SkipOther(conv, conv') /\ UNCHANGED OtherThanConv
StepConvReturn == ConvReturn(conv, conv') /\ UNCHANGED OtherThanConv

Next ==
    \/ StepDecodeText
    \/ StepImageDownloadCall
    \/ StepImageDownloadReturn
    \/ StepImageMoveCall
    \/ StepImageMoveReturn
    \/ StepImageNoSource
    \/ StepAtAssertFail
    \/ StepAtSelf
    \/ StepAtLookupCall
    \/ StepAtLookupReturn
    \/ StepAwaitRaise
    \/ StepAwaitCancel
    \/ StepSkipFile
    \/ StepSkipOther
    \/ StepConvReturn

Spec == Init /\ [][Next]_vars

(***************************************************************************)
(* SpecEnc: one convert_chat_message_to_prompt_str call on any list and    *)
(* one-time code of the bounded sets                                       *)
(***************************************************************************)
InitEnc ==
    /\ conv = ConvIdle
    /\ enc \in {EncStart(list, code) : list \in EncLists, code \in OneTimeCodes}
    /\ conv2 = ConvIdle
    /\ raw = RawIdle
    /\ cmd = CmdIdle

StepEncodeImage == EncodeImage(enc, enc') /\ UNCHANGED OtherThanEnc
StepEncodeFile == EncodeFile(enc, enc') /\ UNCHANGED OtherThanEnc
StepEncodeAt == EncodeAt(enc, enc') /\ UNCHANGED OtherThanEnc
StepEncodeText == EncodeText(enc, enc') /\ UNCHANGED OtherThanEnc
StepEncReturn == EncReturn(enc, enc') /\ UNCHANGED OtherThanEnc

NextEnc ==
    \/ StepEncodeImage
    \/ StepEncodeFile
    \/ StepEncodeAt
    \/ StepEncodeText
    \/ StepEncReturn

SpecEnc == InitEnc /\ [][NextEnc]_vars

(***************************************************************************)
(* SpecPair: two convert_chat_message calls on different messages, each    *)
(* running in its own task; the event loop switches between them at will   *)
(***************************************************************************)
\* most wire segments the messages of the two concurrent calls hold together
MaxPairSegs == 2

PairWireSegs ==
    { Wire("text", [text |-> <<"h", "i">>]),
      Wire("image", [url |-> <<"u">>, file |-> <<"A", ".", "P">>]),
      Wire("image", [file |-> <<"b">>]),
      Wire("image", NoData),
      Wire("at", [qq |-> PyInt(10)]),
      Wire("at", [qq |-> PyInt(7)]),
      Wire("file", NoData),
      Wire("face", [id |-> <<"1">>]) }

\* the wire messages of n segments
PairMessages(n) == [1..n -> PairWireSegs]

\* the events, group and private, that carry a message of n segments
PairEvents(n) ==
    {[is_group |-> TRUE, group_id |-> GroupId, message |-> m] : m \in PairMessages(n)}
    \cup {[is_group |-> FALSE, message |-> m] : m \in PairMessages(n)}

InitPair ==
    /\ \E n1 \in 0..MaxPairSegs : \E n2 \in 0..(MaxPairSegs - n1) :
          /\ conv \in {ConvStart(ev, to_me) : ev \in PairEvents(n1), to_me \in BOOLEAN}
          /\ conv2 \in {ConvStart(ev, to_me) : ev \in PairEvents(n2), to_me \in BOOLEAN}
    /\ ob_message(conv) # ob_message(conv2)
    /\ enc = EncIdle
    /\ raw = RawIdle
    /\ cmd = CmdIdle

Step2DecodeText == DecodeText(conv2, conv2') /\ UNCHANGED OtherThanConv2
Step2ImageDownloadCall == ImageDownloadCall(conv2, conv2') /\ UNCHANGED OtherThanConv2
Step2ImageDownloadReturn == ImageDownloadReturn(conv2, conv2') /\ UNCHANGED OtherThanConv2
Step2ImageMoveCall == ImageMoveCall(conv2, conv2') /\ UNCHANGED OtherThanConv2
Step2ImageMoveReturn == ImageMoveReturn(conv2, conv2') /\ UNCHANGED OtherThanConv2
Step2ImageNoSource == ImageNoSource(conv2, conv2') /\ UNCHANGED OtherThanConv2
Step2AtAssertFail == AtAssertFail(conv2, conv2') /\ UNCHANGED OtherThanConv2
Step2AtSelf == AtSelf(conv2, conv2') /\ UNCHANGED OtherThanConv2
Step2AtLookupCall == AtLookupCall(conv2, conv2') /\ UNCHANGED OtherThanConv2
Step2AtLookupReturn == AtLookupReturn(conv2, conv2') /\ UNCHANGED OtherThanConv2
Step2AwaitRaise == AwaitRaise(conv2, conv2') /\ UNCHANGED OtherThanConv2
Step2AwaitCancel == AwaitCancel(conv2, conv2') /\ UNCHANGED OtherThanConv2
Step2SkipFile == SkipFile(conv2, conv2') /\ UNCHANGED OtherThanConv2
Step2SkipOther == SkipOther(conv2, conv2') /\ UNCHANGED OtherThanConv2
Step2ConvReturn == ConvReturn(conv2, conv2') /\ UNCHANGED OtherThanConv2

NextPair ==
    \/ StepDecodeText
    \/ StepImageDownloadCall
    \/ StepImageDownloadReturn
    \/ StepImageMoveCall
    \/ StepImageMoveReturn
    \/ StepImageNoSource
    \/ StepAtAssertFail
    \/ StepAtSelf
    \/ StepAtLookupCall
    \/ StepAtLookupReturn
    \/ StepAwaitRaise
    \/ StepAwaitCancel
    \/ StepSkipFile
    \/ StepSkipOther
    \/ StepConvReturn
    \/ Step2DecodeText
    \/ Step2ImageDownloadCall
    \/ Step2ImageDownloadReturn
    \/ Step2ImageMoveCall
    \/ Step2ImageMoveReturn
    \/ Step2ImageNoSource
    \/ Step2AtAssertFail
    \/ Step2AtSelf
    \/ Step2AtLookupCall
    \/ Step2AtLookupReturn
    \/ Step2AwaitRaise
    \/ Step2AwaitCancel
    \/ Step2SkipFile
    \/ Step2SkipOther
    \/ Step2ConvReturn

SpecPair == InitPair /\ [][NextPair]_vars

(***************************************************************************)
(* SpecRaw: one convert_raw_msg_data_json_to_msg_prompt call on the        *)
(* persisted form of any list of the bounded set, or on a bad record       *)
(***************************************************************************)
InitRaw ==
    /\ conv = ConvIdle
    /\ enc = EncIdle
    /\ conv2 = ConvIdle
    /\ raw \in {RawStart(RenderAsJson(list), code, list) :
                   list \in RawLists, code \in RawCodes}
               \cup {RawStart(bad, code, <<>>) : bad \in BadRecords, code \in RawCodes}
    /\ cmd = CmdIdle

StepRawDecode == RawDecode(raw, raw', enc') /\ UNCHANGED <<conv, conv2, cmd>>
StepRawDecodeRaise == RawDecodeRaise(raw, raw') /\ UNCHANGED <<conv, enc, conv2, cmd>>
StepRawReturn == RawReturn(raw, enc, raw') /\ UNCHANGED <<conv, enc, conv2, cmd>>

NextRaw ==
    \/ StepRawDecode
    \/ StepRawDecodeRaise
    \/ StepEncodeImage
    \/ StepEncodeAt
    \/ StepEncodeText
    \/ StepEncReturn
    \/ StepRawReturn

SpecRaw == InitRaw /\ [][NextRaw]_vars

(***************************************************************************)
(* Vocabulary of the properties of convert_chat_message, stated on the     *)
(* wire message and on the record of awaited calls                         *)
(***************************************************************************)
\* the mention of the agent itself
SelfMention == SegAt(Str(BOT_QQ), AI_CHAT_PRESET_NAME)

\* a wire 'at' segment whose id, as a string, is the agent's id
IsSelfAt(seg) == seg.type = "at" /\ Str(seg.data.qq) = Str(BOT_QQ)

HasSelfAt(msg) == \E i \in 1..Len(msg) : IsSelfAt(msg[i])

\* a wire segment that yields an internal segment
Produces(seg) ==
    \/ seg.type \in {"text", "at"}
    \/ seg.type = "image" /\ ({"url", "file"} \cap DOMAIN seg.data) # {}

\* a wire segment that is left out without an error
Omitted(seg) == ~Produces(seg)

\* the wire segments the loop has finished with
Processed(c) == c.idx - 1

\* the positions in the call record of the calls made for wire segment i
CallsAt(c, i) == {k \in 1..Len(c.calls) : c.calls[k].at = i}

\* the value the call made for wire segment i returned
ResultAt(c, i) == c.calls[CHOOSE k \in CallsAt(c, i) : TRUE].result.value

\* the internal segment wire segment i stands for, given what its call returned
DecodedSeg(c, i) ==
    LET seg == ob_message(c)[i]
    IN  CASE seg.type = "text" ->
               SegText(IF "text" \in DOMAIN seg.data THEN seg.data.text ELSE <<>>)
          [] seg.type = "image" ->
               SegImage(ResultAt(c, i)[2], ResultAt(c, i)[1],
                        IF "url" \in DOMAIN seg.data THEN seg.data.url ELSE <<>>)
          [] seg.type = "at" ->
               IF IsSelfAt(seg) THEN SelfMention
               ELSE SegAt(Str(seg.data.qq), ResultAt(c, i))

RECURSIVE DecodedUpTo(_, _)
\* the decoded images of the producing segments among the first n, in wire order
DecodedUpTo(c, n) ==
    IF n = 0 THEN <<>>
    ELSE DecodedUpTo(c, n - 1)
         \o (IF Produces(ob_message(c)[n]) THEN <<DecodedSeg(c, n)>> ELSE <<>>)

\* a synthetic mention is due: msg_to_me and no wire mention of the agent
SyntheticDue(c) == c.msg_to_me /\ ~HasSelfAt(ob_message(c))

\* the list without the synthetic mention the return may have put in front
BeforeSynthetic(c) ==
    IF c.pc = "done" /\ SyntheticDue(c) THEN Tail(c.ret_list) ELSE c.ret_list

\* where the segment of wire segment i sits in the list
OutIndex(c, i) ==
    Cardinality({j \in 1..i : Produces(ob_message(c)[j])})

CountType(list, type) == Cardinality({i \in 1..Len(list) : list[i].type = type})

(***************************************************************************)
(* SpecCmd: commands of every handler, from a super user and from another  *)
(* sender, arrive one after another while chat records are being stored    *)
(***************************************************************************)
\* what a step of the command handlers leaves alone
OtherThanCmd == <<conv, enc, conv2, raw>>

\* most commands handled in one run of SpecCmd
MaxInvocations == 2

CmdCommands ==
    { <<"reset", <<>> >>,
      <<"reset", PrivateChat>>,
      <<"exec", <<"x">>>>,
      <<"sh", <<"x">>>>,
      <<"conf_set", Key_AI_CHAT_PRESET_NAME \o <<"=", "x">>>>,
      <<"na_on", <<>> >>,
      <<"na_off", <<"*">>>>,
      <<"docker_restart", <<>> >>,
      <<"nekro_db_reset", <<" ", "-", "y">>>> }

CmdInvocations ==
    {Invocation(cc[1], u, GroupChat, cc[2]) : cc \in CmdCommands, u \in UserIds}

InitCmd ==
    /\ conv = ConvIdle
    /\ enc = EncIdle
    /\ conv2 = ConvIdle
    /\ raw = RawIdle
    /\ cmd \in {CmdStart(TRUE, FALSE), CmdStart(FALSE, TRUE)}

StepDispatch ==
    /\ \E inv \in CmdInvocations : Dispatch(cmd, cmd', inv, MaxInvocations)
    /\ UNCHANGED OtherThanCmd
StepGuardReject == GuardReject(cmd, cmd') /\ UNCHANGED OtherThanCmd
StepGuardPass == GuardPass(cmd, cmd') /\ UNCHANGED OtherThanCmd
StepResetChannel == ResetChannel(cmd, cmd') /\ UNCHANGED OtherThanCmd
StepResetCount == ResetCount(cmd, cmd') /\ UNCHANGED OtherThanCmd
StepResetDelete == ResetDelete(cmd, cmd') /\ UNCHANGED OtherThanCmd
StepExec == Exec(cmd, cmd') /\ UNCHANGED OtherThanCmd
StepSh == Sh(cmd, cmd') /\ UNCHANGED OtherThanCmd
StepConfSet == ConfSet(cmd, cmd') /\ UNCHANGED OtherThanCmd
StepNaOn == NaOn(cmd, cmd') /\ UNCHANGED OtherThanCmd
StepNaOff == NaOff(cmd, cmd') /\ UNCHANGED OtherThanCmd
StepDockerRestart == DockerRestart(cmd, cmd') /\ UNCHANGED OtherThanCmd
StepDbReset == DbReset(cmd, cmd') /\ UNCHANGED OtherThanCmd
StepInsertMessage ==
    /\ \E chat_key \in ChatKeys : InsertMessage(cmd, cmd', chat_key)
    /\ UNCHANGED OtherThanCmd
StepTick ==
    /\ \E d \in TickSteps : Tick(cmd, cmd', d)
    /\ UNCHANGED OtherThanCmd

NextCmd ==
    \/ StepDispatch
    \/ StepGuardReject
    \/ StepGuardPass
    \/ StepResetChannel
    \/ StepResetCount
    \/ StepResetDelete
    \/ StepExec
    \/ StepSh
    \/ StepConfSet
    \/ StepNaOn
    \/ StepNaOff
    \/ StepDockerRestart
    \/ StepDbReset
    \/ StepInsertMessage

SpecCmd == InitCmd /\ [][NextCmd]_vars

(***************************************************************************)
(* SpecDbReset: nekro_db_reset commands arrive while time passes           *)
(***************************************************************************)
\* most commands handled in one run of SpecDbReset
MaxDbResetInvocations == 3

DbResetInvocations ==
    {Invocation("nekro_db_reset", SuperUser, GroupChat, t) :
        t \in {<<>>, <<"-", "y">>, <<"-", "y", " ", "t">>, <<"a", " ", "b", " ", "-", "y">>}}
    \cup {Invocation("nekro_db_reset", OtherUser, GroupChat, <<"-", "y">>)}

InitDbReset ==
    /\ conv = ConvIdle
    /\ enc = EncIdle
    /\ conv2 = ConvIdle
    /\ raw = RawIdle
    /\ cmd = CmdStart(FALSE, FALSE)

StepDispatchDbReset ==
    /\ \E inv \in DbResetInvocations : Dispatch(cmd, cmd', inv, MaxDbResetInvocations)
    /\ UNCHANGED OtherThanCmd

NextDbReset ==
    \/ StepDispatchDbReset
    \/ StepGuardReject
    \/ StepGuardPass
    \/ StepDbReset
    \/ StepTick

SpecDbReset == InitDbReset /\ [][NextDbReset]_vars

(***************************************************************************)
(* SpecConf: conf_set commands arrive one after another                    *)
(***************************************************************************)
\* most commands handled in one run of SpecConf
MaxConfInvocations == 2

ConfValues == {<<"t", "r", "u", "e">>, <<"F", "A", "L", "S", "E">>, <<"f", "a", "l", "s", "e">>, <<"m", "a", "y", "b", "e">>, <<"0">>, <<"7">>}

ConfTexts ==
    {key \o <<"=">> \o value :
        key \in ConfigKeys \cup {<<"X">>}, value \in ConfValues}
    \cup {<<"X">>, <<"=", "x">>, <<"X", "=">>}

ConfInvocations ==
    {Invocation("conf_set", SuperUser, GroupChat, t) : t \in ConfTexts}
    \cup {Invocation("conf_set", OtherUser, GroupChat,
                     Key_ENABLE_COMMAND_UNAUTHORIZED_OUTPUT \o <<"=", "t", "r", "u", "e">>)}

InitConf ==
    /\ conv = ConvIdle
    /\ enc = EncIdle
    /\ conv2 = ConvIdle
    /\ raw = RawIdle
    /\ cmd \in {CmdStart(enable, FALSE) : enable \in BOOLEAN}

StepDispatchConf ==
    /\ \E inv \in ConfInvocations : Dispatch(cmd, cmd', inv, MaxConfInvocations)
    /\ UNCHANGED OtherThanCmd

NextConf ==
    \/ StepDispatchConf
    \/ StepGuardReject
    \/ StepGuardPass
    \/ StepConfSet

SpecConf == InitConf /\ [][NextConf]_vars

(***************************************************************************)
(* Properties of convert_chat_message (specification Spec)                 *)
(***************************************************************************)
\* C1: when convert_chat_message returns for msg_to_me = TRUE and a wire message
\* with no 'at' segment of the agent's id, the returned list starts with the
\* Mention of the agent (target_qq = str(BOT_QQ), nickname = AI_CHAT_PRESET_NAME)
\* and goes on with the decoded segments.
C1_SyntheticMentionFirst ==
    (conv.ret.returned /\ conv.msg_to_me /\ ~HasSelfAt(ob_message(conv)))
    => /\ Len(conv.ret.list) >= 1
       /\ conv.ret.list[1] = SelfMention
       /\ conv.ret.list[1].target_qq = <<"1", "0">>
       /\ Tail(conv.ret.list) = DecodedUpTo(conv, Len(ob_message(conv)))

C1_Witness ==
    /\ conv.ret.returned
    /\ conv.msg_to_me
    /\ ~HasSelfAt(ob_message(conv))
    /\ Len(conv.ret.list) = 3
    /\ conv.ret.list[1] = SelfMention

\* C2 (as claimed): the returned flag is TRUE whenever msg_to_me is TRUE and the
\* wire message has no mention of the agent, and more generally whenever the
\* returned list holds a Mention of the agent.
C2_FlagTrueWhenDirected ==
    conv.ret.returned
    => /\ (conv.msg_to_me /\ ~HasSelfAt(ob_message(conv))) => conv.ret.flag
       /\ (\E i \in 1..Len(conv.ret.list) : conv.ret.list[i] = SelfMention)
              => conv.ret.flag

\* C3: the number of Mention segments returned is the number of wire 'at'
\* segments, plus one exactly when msg_to_me is TRUE and no wire 'at' segment
\* is of the agent's id.
C3_MentionCount ==
    conv.ret.returned
    => CountType(conv.ret.list, "at")
         = CountType(ob_message(conv), "at")
           + (IF conv.msg_to_me /\ ~HasSelfAt(ob_message(conv)) THEN 1 ELSE 0)

C3_Witness ==
    /\ conv.ret.returned
    /\ conv.msg_to_me
    /\ HasSelfAt(ob_message(conv))
    /\ CountType(ob_message(conv), "at") = 2
    /\ CountType(conv.ret.list, "at") = 2

\* C4: at every point of a conversion the accumulated list, without the one
\* synthetic Mention at index 0, is the per-segment decoding of the producing
\* wire segments processed so far, in wire order, whatever the awaited calls
\* returned and whenever they returned.
C4_OrderPreserved ==
    (conv.pc # "idle")
    => BeforeSynthetic(conv) = DecodedUpTo(conv, Processed(conv))

C4_Witness ==
    /\ conv.ret.returned
    /\ conv.msg_to_me
    /\ Len(ob_message(conv)) = 2
    /\ ob_message(conv)[1].type = "image"
    /\ ob_message(conv)[2].type = "at"
    /\ Len(conv.calls) = 2
    /\ Len(conv.ret.list) = 3
    /\ conv.ret.list[2].type = "image"
    /\ conv.ret.list[3].type = "at"

\* C5: an 'at' segment of the agent's id yields the Mention (str(BOT_QQ),
\* AI_CHAT_PRESET_NAME) with no get_user_group_card_name call for it and sets
\* the flag; any other 'at' segment yields a Mention whose nickname is what the
\* lookup for (group_id, id) returned, and does not set the flag.
C5_MentionResolution ==
    (conv.pc # "idle")
    => /\ \A i \in 1..Processed(conv) :
            LET seg == ob_message(conv)[i]
                out == BeforeSynthetic(conv)[OutIndex(conv, i)]
            IN  seg.type = "at"
                => IF Str(seg.data.qq) = Str(BOT_QQ)
                   THEN /\ out = SegAt(Str(BOT_QQ), AI_CHAT_PRESET_NAME)
                        /\ CallsAt(conv, i) = {}
                        /\ conv.is_tome
                   ELSE /\ \E k \in CallsAt(conv, i) :
                              /\ CallsAt(conv, i) = {k}
                              /\ conv.calls[k].fn = "get_user_group_card_name"
                              /\ conv.calls[k].args
                                   = <<conv.ob_event.group_id, Str(seg.data.qq)>>
                              /\ out = SegAt(Str(seg.data.qq), conv.calls[k].result.value)
       /\ conv.is_tome = (\E i \in 1..Processed(conv) : IsSelfAt(ob_message(conv)[i]))
       /\ conv.ret.returned => conv.ret.flag = HasSelfAt(ob_message(conv))

C5_Witness ==
    /\ conv.ret.returned
    /\ conv.ret.flag
    /\ Len(ob_message(conv)) = 2
    /\ ob_message(conv)[1] = Wire("at", [qq |-> PyInt(7)])
    /\ ob_message(conv)[2] = Wire("at", [qq |-> PyInt(10)])
    /\ conv.ret.list = <<SegAt(<<"7">>, <<"k">>), SegAt(<<"1", "0">>, <<"A", "I">>)>>

C7_ErrorNoPartialResult ==
    /\ (\E k \in 1..Len(conv.calls) : conv.calls[k].result = Raised)
         => (conv.pc = "error" /\ conv.ret = NoReturn)
    /\ conv.ret.returned
         => /\ \A k \in 1..Len(conv.calls) : conv.calls[k].result.status = "ok"
            /\ Len(BeforeSynthetic(conv))
                 = Cardinality({i \in 1..Len(ob_message(conv)) : Produces(ob_message(conv)[i])})

C7_Witness ==
    /\ conv.pc = "error"
    /\ Len(conv.calls) = 2
    /\ conv.calls[1].result.status = "ok"
    /\ conv.calls[2].result = Raised
    /\ conv.idx = 2
    /\ Len(conv.ret_list) = 1
    /\ ~conv.ret.returned

\* C8: a step over an image segment with neither 'url' nor 'file', over a
\* segment of kind 'file' or over a segment of an unknown kind adds nothing to
\* the list, raises no error and goes on to the next wire segment; a
\* conversion ends in an error only where an awaited call raised or an 'at'
\* segment met a non-group event, and [text 'hi', file] returns [Text 'hi'].
C8_ToleratedOmissions ==
    /\ [][(InLoop(conv) /\ Omitted(CurSeg(conv)))
            => /\ conv'.ret_list = conv.ret_list
               /\ conv'.pc = "loop"
               /\ conv'.idx = conv.idx + 1
               /\ conv'.calls = conv.calls]_vars
    /\ [](conv.pc = "error" => Produces(CurSeg(conv)))
    /\ []((/\ conv.ret.returned
           /\ ~conv.msg_to_me
           /\ ob_message(conv)
                = <<Wire("text", [text |-> <<"h", "i">>]), Wire("file", NoData)>>)
          => conv.ret.list = <<SegText(<<"h", "i">>)>>)

C8_Witness ==
    /\ conv.ret.returned
    /\ ~conv.msg_to_me
    /\ ob_message(conv) = <<Wire("text", [text |-> <<"h", "i">>]), Wire("file", NoData)>>
    /\ conv.ret.list = <<SegText(<<"h", "i">>)>>

(***************************************************************************)
(* Vocabulary of the properties of convert_chat_message_to_prompt_str      *)
(***************************************************************************)
\* the positions at which pat occurs in s
OccurrencesOf(pat, s) ==
    {k \in 1..(Len(s) - Len(pat) + 1) : SubSeq(s, k, k + Len(pat) - 1) = pat}

\* pat is a substring of s (the empty string is a substring of every string)
OccursIn(pat, s) == OccurrencesOf(pat, s) # {}

\* '<{code} | ', the prefix every marker starts with
MarkerPrefix(code) == <<"<">> \o code \o <<" ", "|", " ">>

NonTextCount(list) == Cardinality({i \in 1..Len(list) : list[i].type # "text"})

\* the grammar of the prompt string, one segment
Rendered(seg, code) ==
    CASE seg.type = "text" -> seg.text
      [] seg.type = "image" ->
           <<"<">> \o code \o <<" ", "|", " ", "I", "m", "a", "g", "e", ":">>
           \o PromptPath(seg.file_name) \o <<">">>
      [] seg.type = "file" ->
           <<"<">> \o code \o <<" ", "|", " ", "F", "i", "l", "e", ":">>
           \o PromptPath(seg.file_name) \o <<">">>
      [] seg.type = "at" ->
           <<"<">> \o code \o <<" ", "|", " ", "A", "t", ":", "[", "@", "q", "q", ":">>
           \o seg.target_qq \o <<";", "n", "i", "c", "k", "n", "a", "m", "e", ":">>
           \o seg.target_nickname \o <<"@", "]", ">">>

RECURSIVE RenderedAll(_, _)
\* the concatenation, in list order and with nothing in between
RenderedAll(list, code) ==
    IF list = <<>> THEN <<>>
    ELSE Rendered(Head(list), code) \o RenderedAll(Tail(list), code)

(***************************************************************************)
(* Properties of convert_chat_message_to_prompt_str (specification SpecEnc)*)
(***************************************************************************)
\* C9: the string built so far is the concatenation, in list order and with
\* nothing added, of the renderings of the segments passed: text verbatim,
\* '<code | Image:path>', '<code | File:path>', '<code | At:[@qq:..;nickname:..@]>';
\* the empty list gives the empty string and [Text 'hello'] gives 'hello'.
C9_EncoderGrammar ==
    (enc.pc # "idle")
    => /\ enc.prompt_str
            = RenderedAll(SubSeq(enc.chat_message, 1, enc.i - 1), enc.one_time_code)
       /\ enc.ret.returned
            => /\ enc.ret.value = RenderedAll(enc.chat_message, enc.one_time_code)
               /\ enc.chat_message = <<>> => enc.ret.value = <<>>
               /\ enc.chat_message = <<SegText(<<"h", "e", "l", "l", "o">>)>>
                    => enc.ret.value = <<"h", "e", "l", "l", "o">>

C9_Witness ==
    /\ enc.ret.returned
    /\ enc.one_time_code = <<"c", "d">>
    /\ enc.chat_message
         = <<SegText(<<"h", "e", "l", "l", "o">>),
             SegAt(<<"1", "0">>, <<"A", "I">>),
             SegImage(<<"n">>, <<"/", "n">>, <<"u">>)>>
    /\ enc.ret.value
         = <<"h", "e", "l", "l", "o">>
           \o <<"<", "c", "d", " ", "|", " ", "A", "t", ":", "[", "@", "q", "q", ":",
                "1", "0", ";", "n", "i", "c", "k", "n", "a", "m", "e", ":",
                "A", "I", "@", "]", ">">>
           \o <<"<", "c", "d", " ", "|", " ", "I", "m", "a", "g", "e", ":",
                "d", "/", "n", ">">>

\* letters and digits
AlnumChars ==
    { "a", "b", "c", "d", "e", "f", "g", "h", "i", "j", "k", "l", "m",
      "n", "o", "p", "q", "r", "s", "t", "u", "v", "w", "x", "y", "z",
      "A", "B", "C", "D", "E", "F", "G", "H", "I", "J", "K", "L", "M",
      "N", "O", "P", "Q", "R", "S", "T", "U", "V", "W", "X", "Y", "Z",
      "0", "1", "2", "3", "4", "5", "6", "7", "8", "9" }

IsAlnum(s) == \A k \in 1..Len(s) : s[k] \in AlnumChars

RECURSIVE TextRunFrom(_, _)
\* the joined content of the consecutive Text segments from position i on
TextRunFrom(list, i) ==
    IF i > Len(list) \/ list[i].type # "text" THEN <<>>
    ELSE list[i].text \o TextRunFrom(list, i + 1)

\* the strings a list puts into the prompt: each maximal run of Text contents
\* joined, each Mention's target_qq and target_nickname, each prompt path
Payloads(list) ==
    {TextRunFrom(list, i) :
        i \in {j \in 1..Len(list) :
                 list[j].type = "text" /\ (j = 1 \/ list[j - 1].type # "text")}}
    \cup {list[i].target_qq : i \in {j \in 1..Len(list) : list[j].type = "at"}}
    \cup {list[i].target_nickname : i \in {j \in 1..Len(list) : list[j].type = "at"}}
    \cup {PromptPath(list[i].file_name) :
            i \in {j \in 1..Len(list) : list[j].type \in {"image", "file"}}}

\* the number of marker prefixes '<{code} | ' in the returned prompt string
PrefixCount(e) ==
    Cardinality(OccurrencesOf(MarkerPrefix(e.one_time_code), e.ret.value))

\* C10 (as claimed): if the one-time code occurs in the content of no Text
\* segment of the list, the returned string holds exactly as many marker
\* prefixes '<{code} | ' as the list holds non-Text segments.
C10_PrefixCountTextOnly ==
    (/\ enc.ret.returned
     /\ \A i \in 1..Len(enc.chat_message) :
           enc.chat_message[i].type = "text"
           => ~OccursIn(enc.one_time_code, enc.chat_message[i].text))
    => PrefixCount(enc) = NonTextCount(enc.chat_message)

\* C10 (amended): if the one-time code is made of letters and digits only and
\* occurs in none of the strings the list puts into the prompt (the joined
\* content of each run of consecutive Text segments, each Mention's target_qq
\* and target_nickname, each Image/File prompt path), the returned string holds
\* exactly as many marker prefixes '<{code} | ' as the list holds non-Text
\* segments.
C10_PrefixCount ==
    (/\ enc.ret.returned
     /\ IsAlnum(enc.one_time_code)
     /\ \A s \in Payloads(enc.chat_message) : ~OccursIn(enc.one_time_code, s))
    => PrefixCount(enc) = NonTextCount(enc.chat_message)

C10_Witness ==
    /\ enc.ret.returned
    /\ enc.one_time_code = <<"c", "d">>
    /\ enc.chat_message
         = <<SegText(<<"<", "c">>),
             SegImage(<<"n">>, <<"/", "n">>, <<"u">>),
             SegText(<<"d", " ", "|", " ">>)>>
    /\ \A s \in Payloads(enc.chat_message) : ~OccursIn(enc.one_time_code, s)
    /\ PrefixCount(enc) = 1

\* C10 (amended) without the condition on the characters of the code
C10_PrefixCountAnyCode ==
    (/\ enc.ret.returned
     /\ \A s \in Payloads(enc.chat_message) : ~OccursIn(enc.one_time_code, s))
    => PrefixCount(enc) = NonTextCount(enc.chat_message)

\* C10 (amended) with Text contents taken one by one instead of joined
C10_PrefixCountSingleTexts ==
    (/\ enc.ret.returned
     /\ IsAlnum(enc.one_time_code)
     /\ \A i \in 1..Len(enc.chat_message) :
           LET seg == enc.chat_message[i]
           IN  CASE seg.type = "text" -> ~OccursIn(enc.one_time_code, seg.text)
                 [] seg.type = "at" ->
                      /\ ~OccursIn(enc.one_time_code, seg.target_qq)
                      /\ ~OccursIn(enc.one_time_code, seg.target_nickname)
                 [] OTHER -> ~OccursIn(enc.one_time_code, PromptPath(seg.file_name)))
    => PrefixCount(enc) = NonTextCount(enc.chat_message)

(***************************************************************************)
(* More properties of convert_chat_message (Spec)                          *)
(***************************************************************************)
\* C12: every Image segment of a list returned by convert_chat_message has a
\* non-empty file_name, and a fetch that handed back an empty file name ended
\* the conversion in an error.
C12_NonEmptyFileName ==
    /\ conv.ret.returned
         => \A j \in 1..Len(conv.ret.list) :
               conv.ret.list[j].type = "image" => conv.ret.list[j].file_name # <<>>
    /\ (\E k \in 1..Len(conv.calls) :
           /\ conv.calls[k].fn \in {"download_file", "move_to_upload_dir"}
           /\ conv.calls[k].result.status = "ok"
           /\ conv.calls[k].result.value[2] = <<>>)
         => conv.pc = "error"

\* C13: in every state of a conversion the list holds exactly the decoded
\* segments of the wire segments already passed, every call made for a passed
\* segment has returned, and a call that is pending or has raised belongs to
\* the segment the loop is still at; a conversion cancelled while suspended
\* has its call still pending, has returned nothing, and never changes again.
C13_AppendOnlyAfterSuccess ==
    /\ [](conv.pc # "idle"
            => /\ \A k \in 1..Len(conv.calls) :
                     IF conv.calls[k].result.status = "ok"
                     THEN conv.calls[k].at < conv.idx
                     ELSE conv.calls[k].at = conv.idx /\ k = Len(conv.calls)
               /\ BeforeSynthetic(conv) = DecodedUpTo(conv, Processed(conv))
               /\ conv.pc \in AwaitPcs
                     => /\ conv.calls # <<>>
                        /\ conv.calls[Len(conv.calls)].result = Pending
                        /\ Len(conv.ret_list) = OutIndex(conv, Processed(conv)))
    /\ [](conv.pc = "cancelled"
            => /\ conv.calls[Len(conv.calls)].result = Pending
               /\ conv.ret = NoReturn
               /\ Len(conv.ret_list) = OutIndex(conv, Processed(conv)))
    /\ [][conv.pc = "cancelled" => conv' = conv]_vars

C13_Witness ==
    /\ conv.pc = "cancelled"
    /\ Len(conv.calls) = 2
    /\ conv.calls[1].result.status = "ok"
    /\ conv.calls[2].fn = "get_user_group_card_name"
    /\ conv.idx = 2
    /\ Len(conv.ret_list) = 1
    /\ conv.ret_list[1].type = "image"

\* C15: on an event that is not a group message event, a step at an 'at'
\* segment ends the conversion in an error at that segment without making a
\* call or touching the list; no lookup is ever made, the loop never passes an
\* 'at' segment, nothing is returned when the message holds one, and the only
\* Mention a returned list can hold is the synthetic one in front.
C15_MentionNeedsGroup ==
    /\ [][(InLoop(conv) /\ CurSeg(conv).type = "at" /\ ~conv.ob_event.is_group)
            => /\ conv'.pc = "error"
               /\ conv'.idx = conv.idx
               /\ conv'.calls = conv.calls
               /\ conv'.ret_list = conv.ret_list
               /\ conv'.ret = NoReturn]_vars
    /\ []((conv.pc # "idle" /\ ~conv.ob_event.is_group)
            => /\ \A k \in 1..Len(conv.calls) :
                     conv.calls[k].fn # "get_user_group_card_name"
               /\ \A i \in 1..Len(ob_message(conv)) :
                     ob_message(conv)[i].type = "at"
                       => (conv.idx <= i /\ ~conv.ret.returned)
               /\ \A j \in 1..Len(BeforeSynthetic(conv)) :
                     BeforeSynthetic(conv)[j].type # "at")

C15_Witness ==
    /\ conv.pc = "error"
    /\ ~conv.ob_event.is_group
    /\ conv.idx = 2
    /\ ob_message(conv)[2].type = "at"
    /\ ob_message(conv)[1].type = "image"
    /\ Len(conv.calls) = 1
    /\ conv.calls[1].result.status = "ok"
    /\ Len(conv.ret_list) = 1

(***************************************************************************)
(* Properties of two interleaved conversions (SpecPair)                    *)
(***************************************************************************)
\* what a call returns when run alone: a function of its own event, its own
\* msg_to_me and what its own fetches and lookups returned
SoloResult(c) ==
    [returned |-> TRUE,
     list |-> (IF SyntheticDue(c) THEN <<SelfMention>> ELSE <<>>)
              \o DecodedUpTo(c, Len(ob_message(c))),
     flag |-> HasSelfAt(ob_message(c))]

\* the part of a frame the other call could leak into
Locals(c) == <<c.ret_list, c.is_tome, c.idx, c.pc, c.calls, c.ret>>

\* C14: of two convert_chat_message calls on different messages whose steps
\* interleave, each returns the pair it returns alone with the same fetch and
\* lookup results, and a step of one call changes nothing of the other.
C14_Independence ==
    /\ [](conv.ret.returned => conv.ret = SoloResult(conv))
    /\ [](conv2.ret.returned => conv2.ret = SoloResult(conv2))
    /\ [][Locals(conv') = Locals(conv) \/ Locals(conv2') = Locals(conv2)]_vars

C14_Witness ==
    /\ conv.ret.returned
    /\ conv2.ret.returned
    /\ conv.ret.flag
    /\ ~conv2.ret.flag
    /\ conv2.msg_to_me
    /\ conv2.ret.list = <<SelfMention, SegAt(<<"7">>, <<"k">>)>>
    /\ conv.ret.list = <<SelfMention>>

(***************************************************************************)
(* Properties of convert_raw_msg_data_json_to_msg_prompt (SpecRaw)         *)
(***************************************************************************)
\* C11: for a record that is the persisted JSON form of a list of Text, Image
\* and Mention segments, convert_raw_msg_data_json_to_msg_prompt returns the
\* prompt string of that list under the same one-time code; the record decodes
\* back to the list it was rendered from.
C11_RoundTripViaRecord ==
    (raw.pc # "idle" /\ raw.json_data = RenderAsJson(raw.source))
    => /\ raw.pc # "error"
       /\ raw.pc \in {"encode", "done"} => enc.chat_message = raw.source
       /\ raw.ret.returned
            => raw.ret.value = RenderedAll(raw.source, raw.one_time_code)

C11_Witness ==
    /\ raw.ret.returned
    /\ raw.one_time_code = <<"c", "d">>
    /\ raw.source = <<SegText(<<"a", "\"", "\\", "b">>), SegAt(<<"7">>, <<"k", "\"">>)>>
    /\ raw.json_data = RenderAsJson(raw.source)
    /\ raw.ret.value
         = <<"a", "\"", "\\", "b">>
           \o <<"<", "c", "d", " ", "|", " ", "A", "t", ":", "[", "@", "q", "q", ":",
                "7", ";", "n", "i", "c", "k", "n", "a", "m", "e", ":",
                "k", "\"", "@", "]", ">">>

(***************************************************************************)
(* Properties of the command handlers (SpecCmd, SpecDbReset, SpecConf)     *)
(***************************************************************************)
\* what the commands act on: chat records, channel activation, configuration
\* and the reset-arming timestamp
Guarded(c) == <<c.messages, c.active, c.config, c.DB_RESET_LATEST_TRIGGER_TIME>>

\* the frame is one of a handler called by a sender outside SUPER_USERS
Unauthorized(c, f) == f.pc # "idle" /\ ~IsSuperUser(c, f.user_id)

\* C16: a handler called by a sender who is not in SUPER_USERS never gets
\* past command_guard: it ends there with no reply or the not-allowed reply,
\* it calls nothing (no reset_channel, limited_run_code, os.system, os.popen,
\* reset_db), it deletes no chat record, and none of its steps changes the
\* chat records, the channel activation, the configuration or the
\* reset-arming timestamp.
C16_AuthorizationGate ==
    /\ [](Unauthorized(cmd, cmd.frame)
            => /\ cmd.frame.pc \in {"guard", "finished"}
               /\ cmd.frame.did = <<>>
               /\ cmd.frame.deleted = {})
    /\ [](\A k \in 1..Len(cmd.history) :
             Unauthorized(cmd, cmd.history[k])
               => /\ cmd.history[k].pc = "finished"
                  /\ cmd.history[k].did = <<>>
                  /\ cmd.history[k].deleted = {}
                  /\ cmd.history[k].reply
                       \in {NoReply, Reply("user_not_allowed", <<cmd.history[k].user_id>>)})
    /\ [][(Unauthorized(cmd, cmd.frame) /\ cmd'.frame # cmd.frame)
            => Guarded(cmd') = Guarded(cmd)]_vars

C16_Witness ==
    /\ Len(cmd.history) = 2
    /\ cmd.history[1].handler = "reset"
    /\ cmd.history[2].handler = "nekro_db_reset"
    /\ \A k \in 1..2 : cmd.history[k].user_id = OtherUser
    /\ Cardinality(Query(cmd, GroupChat)) = 2
    /\ cmd.DB_RESET_LATEST_TRIGGER_TIME = 0

\* the nekro_db_reset invocations of super users so far, in order
DbResets(c) ==
    SelectSeq(c.history,
              LAMBDA f : f.handler = "nekro_db_reset" /\ IsSuperUser(c, f.user_id))

RECURSIVE LastArming(_, _)
\* the time of the most recent arming invocation among the first k: an
\* invocation arms when it comes more than ResetWindow seconds after the last
\* arming, and the first one always does
LastArming(H, k) ==
    IF k = 0 THEN 0 - (ResetWindow + 1)
    ELSE IF H[k].at - LastArming(H, k - 1) > ResetWindow THEN H[k].at
    ELSE LastArming(H, k - 1)

\* the k-th invocation is an arming one
Arming(H, k) == H[k].at - LastArming(H, k - 1) > ResetWindow

\* the invocation's arguments hold the word -y
HasY(f) == Contains(Split(Strip(f.text), " "), <<"-", "y">>)

\* the invocation called reset_db
CalledResetDb(f) == \E i \in 1..Len(f.did) : f.did[i].fn = "reset_db"

\* C17: over the nekro_db_reset invocations of super users, one that called
\* reset_db carried -y and came at most 60 seconds after the most recent
\* arming invocation; an arming invocation (the first one, and every one that
\* comes more than 60 seconds after the last arming) called nothing, replied
\* with the confirmation prompt and left its time as the stored arming time.
C17_TwoStepReset ==
    LET H == DbResets(cmd)
    IN  /\ \A k \in 1..Len(H) :
              /\ CalledResetDb(H[k]) => (HasY(H[k]) /\ ~Arming(H, k))
              /\ Arming(H, k)
                   => (H[k].did = <<>> /\ H[k].reply = Reply("db_reset_prompt", <<>>))
        /\ H # <<>> => cmd.DB_RESET_LATEST_TRIGGER_TIME = LastArming(H, Len(H))

C17_Witness ==
    LET H == DbResets(cmd)
    IN  /\ Len(H) = 3
        /\ H[1].at = StartTime
        /\ H[2].at = StartTime + ResetWindow + 1
        /\ HasY(H[2])
        /\ Arming(H, 2)
        /\ H[3].at = H[2].at
        /\ CalledResetDb(H[3])

\* C18: DB_RESET_LATEST_TRIGGER_TIME changes only in a step of nekro_db_reset
\* that finds the stored time more than 60 seconds back, and then to the
\* current time; a step of nekro_db_reset inside the window, whether it
\* resets, rejects the arguments or asks for -y, leaves it as it is.
C18_ArmingTimestampFrame ==
    [][/\ cmd'.DB_RESET_LATEST_TRIGGER_TIME # cmd.DB_RESET_LATEST_TRIGGER_TIME
            => /\ InBody(cmd, "nekro_db_reset")
               /\ IsSuperUser(cmd, cmd.frame.user_id)
               /\ cmd.now - cmd.DB_RESET_LATEST_TRIGGER_TIME > ResetWindow
               /\ cmd'.DB_RESET_LATEST_TRIGGER_TIME = cmd.now
       /\ (/\ InBody(cmd, "nekro_db_reset")
           /\ cmd'.frame.pc # "body"
           /\ cmd.now - cmd.DB_RESET_LATEST_TRIGGER_TIME <= ResetWindow)
            => cmd'.DB_RESET_LATEST_TRIGGER_TIME = cmd.DB_RESET_LATEST_TRIGGER_TIME]_vars

C18_Witness ==
    /\ Len(cmd.history) = 3
    /\ cmd.history[1].reply = Reply("db_reset_prompt", <<>>)
    /\ CalledResetDb(cmd.history[2])
    /\ cmd.history[2].at = StartTime + ResetWindow
    /\ cmd.history[3].reply = Reply("db_reset_need_y", <<>>)
    /\ cmd.DB_RESET_LATEST_TRIGGER_TIME = StartTime

\* C19: the number in the reply of a finished reset is the number of chat
\* records that reset deleted, and every record it deleted is of its target
\* chat key.
C19_ResetCountAccurate ==
    \A k \in 1..Len(cmd.history) :
        (cmd.history[k].handler = "reset" /\ cmd.history[k].reply.id = "reset_done")
          => /\ cmd.history[k].reply.args[1] = Cardinality(cmd.history[k].deleted)
             /\ \A m \in cmd.history[k].deleted :
                   m.chat_key = cmd.history[k].target_chat_key

\* the part of C19 about other chat keys, on its own: a step of reset takes
\* away only records of its target chat key
C19_OtherKeysKept ==
    [][\A m \in cmd.messages \ cmd'.messages :
          cmd.frame.handler = "reset" /\ m.chat_key = cmd.frame.target_chat_key]_vars

\* the key and the value of a conf_set argument of the form key=value
ConfParts(f) == SplitOnce(Strip(f.cmd_content), "=")

\* C20: a conf_set step on a boolean key sets it to True for true, 1, yes
\* (in any case), to False for false, 0, no, and for any other value leaves
\* the configuration as it is and replies that a boolean must be true or
\* false; a conf_set step on a key the configuration does not have leaves the
\* configuration as it is.
C20_ConfSetBoolean ==
    [][(InBody(cmd, "conf_set") /\ cmd'.frame.pc # "body" /\ Len(ConfParts(cmd.frame)) = 2)
         => LET key == ConfParts(cmd.frame)[1]
                value == ConfParts(cmd.frame)[2]
            IN  /\ (key \in DOMAIN cmd.config /\ value # <<>>)
                     => (IsBool(cmd.config[key])
                          => /\ Lower(value) \in TrueWords
                                  => cmd'.config = [cmd.config EXCEPT ![key] = PyBool(TRUE)]
                             /\ Lower(value) \in FalseWords
                                  => cmd'.config = [cmd.config EXCEPT ![key] = PyBool(FALSE)]
                             /\ Lower(value) \notin TrueWords \cup FalseWords
                                  => /\ cmd'.config = cmd.config
                                     /\ cmd'.frame.reply = Reply("conf_set_bool_only", <<key>>))
                /\ key \notin DOMAIN cmd.config => cmd'.config = cmd.config]_vars

\* the part of C20 about unknown keys, on its own
C20_UnknownKeyUnchanged ==
    [][(InBody(cmd, "conf_set") /\ Len(ConfParts(cmd.frame)) = 2
        /\ ConfParts(cmd.frame)[1] \notin DOMAIN cmd.config)
         => cmd'.config = cmd.config]_vars

\* the part of C20 about the spellings of True, on its own
C20_TrueWordsSetTrue ==
    [][(InBody(cmd, "conf_set") /\ cmd'.frame.pc # "body" /\ Len(ConfParts(cmd.frame)) = 2
        /\ ConfParts(cmd.frame)[1] \in DOMAIN cmd.config
        /\ IsBool(cmd.config[ConfParts(cmd.frame)[1]])
        /\ Lower(ConfParts(cmd.frame)[2]) \in TrueWords)
         => cmd'.config = [cmd.config EXCEPT ![ConfParts(cmd.frame)[1]] = PyBool(TRUE)]]_vars

(***************************************************************************)
(* Properties of the image suffix hint and of logging (Spec)               *)
(***************************************************************************)
\* the calls of the resource fetcher made so far
FetchCalls(c) ==
    {k \in 1..Len(c.calls) : c.calls[k].fn \in {"download_file", "move_to_upload_dir"}}

\* the file name has an extension: a '.' occurs in it
HasExtension(name) == \E i \in 1..Len(name) : name[i] = "."

\* the suffix hint as described: '.' and the lower-cased part after the last
\* '.', empty without a file name or without an extension
DescribedSuffix(seg) ==
    IF "file" \in DOMAIN seg.data /\ HasExtension(seg.data.file)
    THEN <<".">> \o Lower(LastPart(seg.data.file, "."))
    ELSE <<>>

\* C21: the suffix hint handed to download_file or move_to_upload_dir for a
\* wire image segment is '.' followed by the lower-cased part of the wire
\* file name after its last '.', and is empty when the segment has no file
\* name or the file name has no '.'; it holds no upper-case character and is
\* not the whole file name.
C21_ImageSuffixHint ==
    \A k \in FetchCalls(conv) :
        LET seg == ob_message(conv)[conv.calls[k].at]
            hint == conv.calls[k].args[2]
        IN  /\ hint = DescribedSuffix(seg)
            /\ \A i \in 1..Len(hint) : \A u \in 1..Len(UpperChars) : hint[i] # UpperChars[u]
            /\ "file" \in DOMAIN seg.data => hint # seg.data.file

\* the part of C21 about file names with an extension and about segments
\* without a file name, on its own
C21_SuffixWhenExtensionOrNoFile ==
    \A k \in FetchCalls(conv) :
        LET seg == ob_message(conv)[conv.calls[k].at]
            hint == conv.calls[k].args[2]
        IN  /\ ("file" \notin DOMAIN seg.data \/ HasExtension(seg.data.file))
              => hint = DescribedSuffix(seg)
            /\ \A i \in 1..Len(hint) : \A u \in 1..Len(UpperChars) : hint[i] # UpperChars[u]
            /\ "file" \in DOMAIN seg.data => hint # seg.data.file

\* the wire segment is left out as recoverable: an image with neither 'url'
\* nor 'file', or a segment of kind 'file'
RecoverableOmission(seg) ==
    \/ seg.type = "image" /\ "url" \notin DOMAIN seg.data /\ "file" \notin DOMAIN seg.data
    \/ seg.type = "file"

\* the wire segments passed so far that were left out as recoverable
OmittedSoFar(c) ==
    {i \in 1..Processed(c) : RecoverableOmission(ob_message(c)[i])}

\* C22: in every state of a conversion the number of warnings logged so far
\* is at least the number of wire segments passed so far that were left out
\* as recoverable (images with no source, segments of kind 'file').
C22_OmissionsLogged ==
    conv.pc # "idle" => conv.warnings >= Cardinality(OmittedSoFar(conv))

\* the part of C22 about images with no source, on its own
C22_ImageNoSourceLogged ==
    conv.pc # "idle"
      => conv.warnings
           >= Cardinality({i \in OmittedSoFar(conv) : ob_message(conv)[i].type = "image"})

====
